---- MODULE Spec2Model ----
(***************************************************************************)
(* A model of the route-weather planner: the waypoint derivation and the    *)
(* weather providers of src/lib/apiUtils.ts, the driving score of           *)
(* src/lib/drivingScore.ts, the trip assessment and departure comparison    *)
(* of src/components/WeatherSummary.tsx and the trip submission of          *)
(* src/pages/Index.tsx.                                                     *)
(*                                                                          *)
(* Units.  Times are whole seconds (a Date holds whole milliseconds and     *)
(* OSRM reports durations in tenths of a second, so no arrival time falls   *)
(* between two representable instants).  Precipitation intensity and        *)
(* visibility are in tenths (of mm/h and of km): every threshold of the     *)
(* code is a multiple of 0.1, so each interval between two thresholds and   *)
(* each threshold itself has a representative.  Temperature and wind are    *)
(* whole degrees and whole m/s, their thresholds being integers.            *)
(* Fractions the code computes in floating point (progress along the        *)
(* route, averages, the 30 % and 40 % shares) are kept exact as integer     *)
(* pairs; for the ranges modelled the doubles order the same way.           *)
(***************************************************************************)
EXTENDS Integers, Sequences, FiniteSets, TLC

VARIABLES
    route,              \* RouteData handed to calculateWaypoints
    departureTime,      \* the departure Date, in seconds
    waypoints,          \* Waypoint[]: the list calculateWaypoints returned
    callState,          \* where the call under study stands: "ready", then
                        \* "returned" | "threw" | "scored" | "rescored"
    weather,            \* WeatherData scored by the driving score
    weatherHigher,      \* the same observation with a higher intensity
    scored,             \* the scorer's outputs: for weather, then for weatherHigher
    weatherData,        \* Map<number, WeatherData | null>: the baseline map
    weatherDataOffset,  \* the +1h candidate map
    summary,            \* what assessTrip, getWaitMessage and the summary's
                        \* render computed from them
    isLoading,          \* Index state: a submission is running
    loadingStage,       \* Index state: "idle" | "route" | "weather" | "preparing"
    error,              \* Index state: the error message, or null
    routeData,          \* Index state: the RouteData, or null
    weatherDataOffset3h,\* Index state: the +3h candidate map
    isLoading3hOffset,  \* Index state: a +3h fetch round is running
    has3hCheckTriggered,\* WeatherSummary state (lost when it unmounts)
    pc,                 \* where the running handleSubmit call stands
    results,            \* the results the awaited Promise.all has collected
    pending,            \* the weather fetches in flight
    trip,               \* the number of submissions so far
    issued,             \* what the current submission has issued so far
    coords,             \* getWeather's lat and lon, in tenths of a degree
    smhiResponse,       \* what the SMHI request would answer
    openMeteoResponse,  \* what the Open-Meteo request would answer
    attempts,           \* the providers getWeather has requested, in order
    observation,        \* what getWeather returned
    score,              \* a driving score to label
    scoreLabel,         \* the label getDrivingScoreLabel gave it
    weatherProgress,    \* Index state: { current, total } of the splash screen
    tripScores,         \* what calculateTripAverageScore and getMinTripScore returned
    seriesTimes,        \* the times of a provider's series, in its order
    daily,              \* the daily block of an Open-Meteo payload, or null
    targetTimestamp,    \* the target time of a getWeather call, in seconds
    closestIndex,       \* the index the nearest-time loop ended with
    sunTimes,           \* the sunrise and sunset getWeather returned
    narrative,          \* the NarrativeLine[] generateNarrative returned
    isNight             \* isNightTime for each waypoint of the timeline

routeVars == <<route, departureTime>>
scorerVars == <<weather, weatherHigher, scored>>
summaryVars == <<weatherData, weatherDataOffset, summary>>

indexVars ==
    <<isLoading, loadingStage, error, routeData, weatherDataOffset3h,
      isLoading3hOffset, has3hCheckTriggered, pc, results, pending, trip, issued,
      weatherProgress>>
providerVars == <<coords, smhiResponse, openMeteoResponse, attempts, observation>>
labelVars == <<score, scoreLabel>>
aggregateVars == <<tripScores>>
forecastVars == <<seriesTimes, daily, targetTimestamp, closestIndex, sunTimes>>
narrativeVars == <<narrative, isNight>>
derivedVars == <<aggregateVars, forecastVars, narrativeVars>>
appVars == <<indexVars, providerVars, labelVars, derivedVars>>

vars == <<routeVars, waypoints, callState, scorerVars, summaryVars, appVars>>

(***************************************************************************)
(* Bounds of the model.                                                     *)
(***************************************************************************)
MaxHours == 2
MaxGeometry == 3

\* Seconds past a whole hour that a route duration may have.
DurationOffsets == {0, 1, 1800, 3599}

Durations == {h * 3600 + d : h \in 0..MaxHours, d \in DurationOffsets}

\* Route lengths in km.
Distances == {0, 1, 150}

Departures == {0, 500}

(***************************************************************************)
(* RouteData.steps as getRoute builds it: names are never empty there       *)
(* (step.name || 'Unnamed road'); step durations add up to the route's or,  *)
(* through rounding, fall short of it.                                      *)
(***************************************************************************)
StepLists(duration) ==
    { << [name |-> "E4", duration |-> duration] >>,
      << [name |-> "E4", duration |-> duration \div 2],
         [name |-> "Unnamed road", duration |-> duration - (duration \div 2)] >>,
      << [name |-> "E4", duration |-> duration \div 2] >> }

\* geometry is the number of points of route.geometry.
Routes ==
    UNION { { [distance |-> km, duration |-> d, steps |-> s, geometry |-> n] :
                km \in Distances, s \in StepLists(d), n \in 0..MaxGeometry } :
            d \in Durations }

(***************************************************************************)
(* Exact fractions: distanceFromStart is progress * route.distance.        *)
(***************************************************************************)
Frac(n, d) == [num |-> n, den |-> d]

\* x <= y for fractions with positive denominators, without large products.
FracLeq(x, y) ==
    LET qx == x.num \div x.den
        qy == y.num \div y.den
    IN  \/ qx < qy
        \/ /\ qx = qy
           /\ (x.num % x.den) * y.den <= (y.num % y.den) * x.den

FracEq(x, y) == FracLeq(x, y) /\ FracLeq(y, x)

\* Math.ceil(a / b) for a >= 0, b > 0.
CeilDiv(a, b) == (a + b - 1) \div b

(***************************************************************************)
(* calculateWaypoints.  A geometry point is named by its index in          *)
(* route.geometry, whose length is route.geometry here.                    *)
(***************************************************************************)
RECURSIVE stepName(_, _, _, _)
stepName(steps, i, accumulatedDuration, targetTime) ==
    IF i > Len(steps) THEN "En route"
    ELSE LET acc == accumulatedDuration + steps[i].duration
         IN  IF acc >= targetTime
             THEN (IF steps[i].name = "" THEN "En route" ELSE steps[i].name)
             ELSE stepName(steps, i + 1, acc, targetTime)

startWaypoint(r, departure, fromName) ==
    [point |-> 0, name |-> fromName, arrivalTime |-> departure,
     distanceFromStart |-> Frac(0, 1)]

\* The destination stamped with the hourly tick instead of the route's duration.
destinationWaypointAtTick(r, departure, toName) ==
    [point |-> r.geometry - 1, name |-> toName,
     arrivalTime |-> departure + CeilDiv(r.duration, 3600) * 3600,
     distanceFromStart |-> Frac(r.distance, 1)]

destinationWaypoint(r, departure, toName) ==
    [point |-> r.geometry - 1, name |-> toName,
     arrivalTime |-> departure + r.duration,
     distanceFromStart |-> Frac(r.distance, 1)]

\* The index rounded to the nearest point instead of truncated.
pointIndexRound(r, targetTime) ==
    (2 * targetTime * (r.geometry - 1) + r.duration) \div (2 * r.duration)

\* Math.floor(progress * (route.geometry.length - 1))
pointIndex(r, targetTime) == (targetTime * (r.geometry - 1)) \div r.duration

hourlyWaypoint(r, departure, hour) ==
    LET targetTime == hour * 3600
        index == pointIndex(r, targetTime)
    IN  [point |-> IF index < r.geometry - 1 THEN index ELSE r.geometry - 1,
         name |-> stepName(r.steps, 1, 0, targetTime),
         arrivalTime |-> departure + targetTime,
         distanceFromStart |-> Frac(targetTime * r.distance, r.duration)]

\* The loop with the destination test written > instead of >=.
RECURSIVE hourlyLoopStrict(_, _, _, _, _)
hourlyLoopStrict(r, departure, toName, hour, acc) ==
    IF hour > CeilDiv(r.duration, 3600) THEN acc
    ELSE IF hour * 3600 > r.duration
         THEN Append(acc, destinationWaypoint(r, departure, toName))
         ELSE hourlyLoopStrict(r, departure, toName, hour + 1,
                               Append(acc, hourlyWaypoint(r, departure, hour)))

RECURSIVE hourlyLoop(_, _, _, _, _)
hourlyLoop(r, departure, toName, hour, acc) ==
    IF hour > CeilDiv(r.duration, 3600) THEN acc
    ELSE IF hour * 3600 >= r.duration
         THEN Append(acc, destinationWaypoint(r, departure, toName))
         ELSE hourlyLoop(r, departure, toName, hour + 1,
                         Append(acc, hourlyWaypoint(r, departure, hour)))

calculateWaypoints(r, departure, fromName, toName) ==
    hourlyLoop(r, departure, toName, 1, << startWaypoint(r, departure, fromName) >>)

\* route.geometry[0][0] throws a TypeError on an empty geometry.
calculateWaypointsThrows(r) == r.geometry = 0

(***************************************************************************)
(* The driving score (src/lib/drivingScore.ts).  Intensity and visibility  *)
(* are in tenths, multipliers in tenths.                                   *)
(***************************************************************************)
Min(a, b) == IF a < b THEN a ELSE b
Max(a, b) == IF a > b THEN a ELSE b

\* Math.round(n / d) for n >= 0, d > 0: halves round up.
RoundDiv(n, d) == (2 * n + d) \div (2 * d)

\* The base steps with each upper limit excluded from its band.
basePenaltyStrict(intensity) ==
    IF intensity <= 0 THEN 0
    ELSE IF intensity < 5 THEN 3
    ELSE IF intensity < 10 THEN 7
    ELSE IF intensity < 20 THEN 12
    ELSE IF intensity < 40 THEN 18
    ELSE IF intensity < 80 THEN 28
    ELSE 40

basePenalty(intensity) ==
    IF intensity <= 0 THEN 0
    ELSE IF intensity <= 5 THEN 3
    ELSE IF intensity <= 10 THEN 7
    ELSE IF intensity <= 20 THEN 12
    ELSE IF intensity <= 40 THEN 18
    ELSE IF intensity <= 80 THEN 28
    ELSE 40

typeMultiplier(intensity, precipType, temperature) ==
    CASE precipType = 1 -> 12
      [] precipType = 2 -> 13
      [] precipType = 3 -> 10
      [] precipType = 4 -> 8
      [] precipType = 5 -> 15
      [] precipType = 6 -> 14
      [] OTHER -> IF temperature < 0 /\ intensity > 0 THEN 12 ELSE 10

\* The penalty returned without the clamp to 40.
calculatePrecipitationPenaltyUnclamped(intensity, precipType, temperature) ==
    IF basePenalty(intensity) = 0 THEN 0
    ELSE RoundDiv(basePenalty(intensity) * typeMultiplier(intensity, precipType, temperature), 10)

calculatePrecipitationPenalty(intensity, precipType, temperature) ==
    IF basePenalty(intensity) = 0 THEN 0
    ELSE Min(40, RoundDiv(basePenalty(intensity)
                            * typeMultiplier(intensity, precipType, temperature), 10))

calculateVisibilityPenalty(visibility) ==
    IF visibility >= 100 THEN 0
    ELSE IF visibility >= 50 THEN 5
    ELSE IF visibility >= 20 THEN 10
    ELSE IF visibility >= 10 THEN 15
    ELSE IF visibility >= 5 THEN 20
    ELSE 25

calculateWindPenalty(windSpeed) ==
    IF windSpeed < 5 THEN 0
    ELSE IF windSpeed < 10 THEN 5
    ELSE IF windSpeed < 15 THEN 10
    ELSE IF windSpeed < 20 THEN 15
    ELSE 20

\* The surface risk with the coldest band under precipitation returning 0.
calculateSurfaceRiskPenaltyDryOnly(temperature, precipitationIntensity) ==
    IF precipitationIntensity <= 0
    THEN (IF temperature < -10 THEN 5 ELSE IF temperature < 0 THEN 3 ELSE 0)
    ELSE IF temperature > 5 THEN 0
    ELSE IF temperature > 0 THEN 5
    ELSE IF temperature > -5 THEN 10
    ELSE 0

calculateSurfaceRiskPenalty(temperature, precipitationIntensity) ==
    IF precipitationIntensity <= 0
    THEN (IF temperature < -10 THEN 5 ELSE IF temperature < 0 THEN 3 ELSE 0)
    ELSE IF temperature > 5 THEN 0
    ELSE IF temperature > 0 THEN 5
    ELSE IF temperature > -5 THEN 10
    ELSE 15

calculateDrivingScore(w) ==
    LET precipPenalty == calculatePrecipitationPenalty(
                             w.precipitationIntensity, w.precipitationType, w.temperature)
        visibilityPenalty == calculateVisibilityPenalty(w.visibility)
        windPenalty == calculateWindPenalty(w.windSpeed)
        surfacePenalty == calculateSurfaceRiskPenalty(w.temperature, w.precipitationIntensity)
        totalPenalty == precipPenalty + visibilityPenalty + windPenalty + surfacePenalty
    IN  Max(0, 100 - totalPenalty)

getScoreBreakdown(w) ==
    LET precipitation == calculatePrecipitationPenalty(
                             w.precipitationIntensity, w.precipitationType, w.temperature)
        visibility == calculateVisibilityPenalty(w.visibility)
        wind == calculateWindPenalty(w.windSpeed)
        surfaceRisk == calculateSurfaceRiskPenalty(w.temperature, w.precipitationIntensity)
    IN  [precipitation |-> precipitation, visibility |-> visibility, wind |-> wind,
         surfaceRisk |-> surfaceRisk,
         total |-> precipitation + visibility + wind + surfaceRisk]

(***************************************************************************)
(* Weather maps.  A Map<number, WeatherData | null> is a function from the *)
(* keys that were set to << >> (null) or << observation >>.                *)
(***************************************************************************)
\* weatherData.get(index) is truthy: the key is set and its value is not null.
hasWeather(m, index) == index \in DOMAIN m /\ m[index] # << >>

\* weatherData.get(index), for an index that hasWeather.
getWeatherAt(m, index) == m[index][1]

\* Array.from(m.values()).filter(w => w !== null).length
loadedCountOf(m) == Cardinality({k \in DOMAIN m : m[k] # << >>})

(***************************************************************************)
(* assessTrip (src/components/WeatherSummary.tsx).  Waypoint index i of    *)
(* the code is position i + 1 of the sequence waypoints.                   *)
(***************************************************************************)
hasDangerousPrecipitation(w) ==
    w.precipitationIntensity > 40 \/ (w.weatherSymbol >= 20 /\ w.weatherSymbol <= 27)

hasModeratePrecipitation(w) ==
    w.precipitationIntensity > 20 \/ (w.weatherSymbol >= 10 /\ w.weatherSymbol <= 19)

hasLightPrecipitation(w) ==
    w.precipitationIntensity > 5 \/ (w.weatherSymbol >= 8 /\ w.weatherSymbol < 10)

\* The warning test without its wind clause.
isWarningPointNoWind(w) == hasDangerousPrecipitation(w) \/ w.visibility < 30

isWarningPoint(w) ==
    hasDangerousPrecipitation(w) \/ w.visibility < 30 \/ w.windSpeed > 20

isCautionPoint(w) ==
    hasModeratePrecipitation(w) \/ w.visibility < 50 \/ w.windSpeed > 15

assessPoint(acc, w) ==
    [warningCount |-> acc.warningCount + (IF isWarningPoint(w) THEN 1 ELSE 0),
     cautionCount |->
         acc.cautionCount + (IF ~isWarningPoint(w) /\ isCautionPoint(w) THEN 1 ELSE 0),
     totalPoints |-> acc.totalPoints + 1,
     hasPrecipitation |->
         \/ acc.hasPrecipitation
         \/ hasDangerousPrecipitation(w)
         \/ hasModeratePrecipitation(w)
         \/ hasLightPrecipitation(w),
     hasClearWeather |->
         acc.hasClearWeather \/ (w.precipitationIntensity < 5 /\ w.weatherSymbol < 8)]

\* The loop body with totalPoints counted before the null test.
assessStepCountFirst(acc, m, index) ==
    IF ~hasWeather(m, index) THEN [acc EXCEPT !.totalPoints = @ + 1]
    ELSE assessPoint(acc, getWeatherAt(m, index))

assessStep(acc, m, index) ==
    IF ~hasWeather(m, index) THEN acc
    ELSE assessPoint(acc, getWeatherAt(m, index))

\* The loop run over the keys of the map instead of the waypoints.
RECURSIVE assessLoopOverMap(_, _, _, _)
assessLoopOverMap(wps, m, index, acc) ==
    IF \A k \in DOMAIN m : k < index THEN acc
    ELSE assessLoopOverMap(wps, m, index + 1, assessStep(acc, m, index))

RECURSIVE assessLoop(_, _, _, _)
assessLoop(wps, m, index, acc) ==
    IF index >= Len(wps) THEN acc
    ELSE assessLoop(wps, m, index + 1, assessStep(acc, m, index))

\* Warning for any warning point, whatever its share.
overallSeverityAnyWarning(warningCount, cautionCount, totalPoints) ==
    IF warningCount > 0 THEN "warning"
    ELSE IF cautionCount > 0
         THEN (IF 10 * cautionCount >= 4 * totalPoints THEN "caution" ELSE "good")
         ELSE "good"

\* count >= totalPoints * 0.3 is 10 * count >= 3 * totalPoints: for every
\* totalPoints below 2000 the double totalPoints * 0.3 (and * 0.4) orders
\* against every integer as the exact product does.
overallSeverity(warningCount, cautionCount, totalPoints) ==
    IF warningCount > 0
    THEN (IF 10 * warningCount >= 3 * totalPoints THEN "warning" ELSE "caution")
    ELSE IF cautionCount > 0
         THEN (IF 10 * cautionCount >= 4 * totalPoints THEN "caution" ELSE "good")
         ELSE "good"

tripDurationSeconds(wps) ==
    IF Len(wps) >= 2 THEN wps[Len(wps)].arrivalTime - wps[1].arrivalTime ELSE 0

assessTrip(wps, m) ==
    LET acc == assessLoop(wps, m, 0,
                          [warningCount |-> 0, cautionCount |-> 0, totalPoints |-> 0,
                           hasPrecipitation |-> FALSE, hasClearWeather |-> FALSE])
    IN  [severity |-> overallSeverity(acc.warningCount, acc.cautionCount, acc.totalPoints),
         isLongTrip |-> tripDurationSeconds(wps) > 3 * 3600,
         hasMixedConditions |-> acc.hasPrecipitation /\ acc.hasClearWeather,
         warningCount |-> acc.warningCount,
         cautionCount |-> acc.cautionCount,
         totalPoints |-> acc.totalPoints]

getConditionSeverity(w) ==
    IF \/ w.precipitationIntensity > 40
       \/ w.visibility < 30
       \/ w.windSpeed > 20
       \/ (w.weatherSymbol >= 20 /\ w.weatherSymbol <= 27)
    THEN "severe"
    ELSE IF \/ w.precipitationIntensity > 20
            \/ w.visibility < 50
            \/ w.windSpeed > 15
            \/ (w.weatherSymbol >= 10 /\ w.weatherSymbol <= 19)
         THEN "caution"
         ELSE "none"

(***************************************************************************)
(* calculateTripAverageScore (src/lib/drivingScore.ts) and getWaitMessage   *)
(* (src/components/WeatherSummary.tsx).                                     *)
(***************************************************************************)
\* The keys of the entries weatherData.forEach pushes a score for.
scoredKeys(m) == {k \in DOMAIN m : m[k] # << >>}

\* scores.reduce((a, b) => a + b, 0) over the entries with these keys.
RECURSIVE sumScores(_, _)
sumScores(m, keys) ==
    IF keys = {} THEN 0
    ELSE LET k == CHOOSE x \in keys : TRUE
         IN  calculateDrivingScore(m[k][1]) + sumScores(m, keys \ {k})

\* The average truncated instead of rounded.
calculateTripAverageScoreFloor(m) ==
    IF scoredKeys(m) = {} THEN << >>
    ELSE << sumScores(m, scoredKeys(m)) \div Cardinality(scoredKeys(m)) >>

\* null is << >>, a number n is << n >>.
calculateTripAverageScore(m) ==
    IF scoredKeys(m) = {} THEN << >>
    ELSE << RoundDiv(sumScores(m, scoredKeys(m)), Cardinality(scoredKeys(m))) >>

\* weatherData.forEach over the scored entries, minScore carried along.
RECURSIVE minScoreOver(_, _, _)
minScoreOver(m, keys, minScore) ==
    IF keys = {} THEN minScore
    ELSE LET k == CHOOSE x \in keys : TRUE
             s == calculateDrivingScore(m[k][1])
         IN  minScoreOver(m, keys \ {k},
                          IF minScore = << >> \/ s < minScore[1] THEN << s >> ELSE minScore)

\* minScore initialised to 0 instead of null.
getMinTripScoreFromZero(m) == minScoreOver(m, scoredKeys(m), << 0 >>)

\* null is << >>, a number n is << n >>.
getMinTripScore(m) == minScoreOver(m, scoredKeys(m), << >>)

severityScore(severity) ==
    CASE severity = "good" -> 0
      [] severity = "caution" -> 1
      [] severity = "warning" -> 2

\* getWaitMessage without its severity fallback.
getWaitMessageNoFallback(currentAssessment, offsetAssessment, currentWeatherData, offsetWeatherData) ==
    IF offsetAssessment = << >> THEN "null"
    ELSE LET currentScore == calculateTripAverageScore(currentWeatherData)
             offsetScore == calculateTripAverageScore(offsetWeatherData)
         IN  IF currentScore = << >> \/ offsetScore = << >>
             THEN "null"
             ELSE LET scoreDiff == offsetScore[1] - currentScore[1]
                  IN  IF scoreDiff >= 5 THEN "improveWithScore"
                      ELSE IF scoreDiff <= -5 THEN "worsenWithScore"
                      ELSE "notImprove"

\* The message returned, by the text it is built from:
\*   "improve"           Waiting 1 hour will improve conditions.
\*   "worsen"            Waiting 1 hour will worsen conditions.
\*   "notImprove"        Waiting 1 hour will not improve conditions.
\*   "improveWithScore"  Waiting 1 hour will improve conditions (score: a -> b label).
\*   "worsenWithScore"   Waiting 1 hour will worsen conditions (score: a -> b).
\*   "null"              null
\* offsetWeatherData is always a Map here, as Index passes it.
getWaitMessage(currentAssessment, offsetAssessment, currentWeatherData, offsetWeatherData) ==
    IF offsetAssessment = << >> THEN "null"
    ELSE LET currentScore == calculateTripAverageScore(currentWeatherData)
             offsetScore == calculateTripAverageScore(offsetWeatherData)
         IN  IF currentScore = << >> \/ offsetScore = << >>
             THEN LET currentSev == severityScore(currentAssessment.severity)
                      offsetSev == severityScore(offsetAssessment[1].severity)
                  IN  IF offsetSev < currentSev THEN "improve"
                      ELSE IF offsetSev > currentSev THEN "worsen"
                      ELSE "notImprove"
             ELSE LET scoreDiff == offsetScore[1] - currentScore[1]
                  IN  IF scoreDiff >= 5 THEN "improveWithScore"
                      ELSE IF scoreDiff <= -5 THEN "worsenWithScore"
                      ELSE "notImprove"

(***************************************************************************)
(* What one render of WeatherSummary computes (isCalculatingRoute false,   *)
(* as Index passes it): the view it returns and, for the summary view, the *)
(* assessments and the +1h wait message.                                   *)
(***************************************************************************)
offsetAssessmentOf(wps, offsetMap) ==
    IF loadedCountOf(offsetMap) > 0 THEN << assessTrip(wps, offsetMap) >> ELSE << >>

renderWeatherSummary(wps, m, offsetMap) ==
    IF Len(wps) > 0 /\ loadedCountOf(m) = 0
    THEN [view |-> "loading", assessment |-> << >>, offsetAssessment |-> << >>,
          severities |-> [i \in {} |-> << >>], waitMessage |-> "null",
          showsWaitMessage |-> FALSE]
    ELSE IF loadedCountOf(m) = 0
    THEN [view |-> "nothing", assessment |-> << >>, offsetAssessment |-> << >>,
          severities |-> [i \in {} |-> << >>], waitMessage |-> "null",
          showsWaitMessage |-> FALSE]
    ELSE LET assessment == assessTrip(wps, m)
             offsetAssessment == offsetAssessmentOf(wps, offsetMap)
             waitMessage == getWaitMessage(assessment, offsetAssessment, m, offsetMap)
         IN  [view |-> "summary", assessment |-> << assessment >>,
              offsetAssessment |-> offsetAssessment,
              severities |-> [i \in {} |-> << >>],
              waitMessage |-> waitMessage,
              showsWaitMessage |->
                  /\ calculateTripAverageScore(m) # << >>
                  /\ calculateTripAverageScore(m)[1] <= 90
                  /\ waitMessage # "null"]

(***************************************************************************)
(* The waypoint specification: calculateWaypoints applied to every route.  *)
(***************************************************************************)
NoWeather ==
    [temperature |-> 0, precipitationType |-> 0, precipitationIntensity |-> 0,
     windSpeed |-> 0, visibility |-> 0, weatherSymbol |-> 1]

RouteIdle ==
    /\ route = [distance |-> 0, duration |-> 0, steps |-> << >>, geometry |-> 1]
    /\ departureTime = 0

\* An empty Map.
EmptyMap == [i \in {} |-> << >>]

\* A value that may be null: << >> is null, << x >> is x.
Null == << >>
Some(x) == << x >>

NoSummary ==
    [view |-> "none", assessment |-> Null, offsetAssessment |-> Null,
     severities |-> EmptyMap, waitMessage |-> "null", showsWaitMessage |-> FALSE]

SummaryIdle ==
    /\ weatherData = EmptyMap
    /\ weatherDataOffset = EmptyMap
    /\ summary = NoSummary

ScorerIdle ==
    /\ weather = NoWeather
    /\ weatherHigher = NoWeather
    /\ scored = << >>

\* Index as it is constructed (the useState initial values), no submission made.
IndexIdle ==
    /\ isLoading = FALSE
    /\ loadingStage = "idle"
    /\ error = Null
    /\ routeData = Null
    /\ weatherDataOffset3h = EmptyMap
    /\ isLoading3hOffset = FALSE
    /\ has3hCheckTriggered = FALSE
    /\ pc = "idle"
    /\ results = EmptyMap
    /\ pending = {}
    /\ trip = 0
    /\ issued = [baseline |-> 0, offset |-> 0, offset3h |-> 0, checks3h |-> 0,
                 failed |-> {}]
    /\ weatherProgress = [current |-> 0, total |-> 0]

ProviderIdle ==
    /\ coords = [lat |-> 0, lon |-> 0]
    /\ smhiResponse = [ok |-> FALSE, series |-> << >>]
    /\ openMeteoResponse = [ok |-> FALSE, series |-> << >>]
    /\ attempts = << >>
    /\ observation = Null

LabelIdle ==
    /\ score = 0
    /\ scoreLabel = Null

\* No aggregate, no nearest-time search and no narrative computed yet.
DerivedIdle ==
    /\ tripScores = Null
    /\ seriesTimes = << >>
    /\ daily = Null
    /\ targetTimestamp = 0
    /\ closestIndex = Null
    /\ sunTimes = Null
    /\ narrative = Null
    /\ isNight = << >>

AppIdle == IndexIdle /\ ProviderIdle /\ LabelIdle /\ DerivedIdle

InitWaypoints ==
    /\ AppIdle
    /\ route \in Routes
    /\ departureTime \in Departures
    /\ waypoints = << >>
    /\ callState = "ready"
    /\ ScorerIdle
    /\ SummaryIdle

CalculateWaypoints ==
    /\ callState = "ready"
    /\ ~calculateWaypointsThrows(route)
    /\ waypoints' = calculateWaypoints(route, departureTime, "from", "to")
    /\ callState' = "returned"
    /\ UNCHANGED <<appVars, routeVars, scorerVars, summaryVars>>

CalculateWaypointsThrows ==
    /\ callState = "ready"
    /\ calculateWaypointsThrows(route)
    /\ callState' = "threw"
    /\ UNCHANGED <<appVars, routeVars, waypoints, scorerVars, summaryVars>>

NextWaypoints == CalculateWaypoints \/ CalculateWaypointsThrows

SpecWaypoints == InitWaypoints /\ [][NextWaypoints]_vars

(***************************************************************************)
(* The scorer specification: calculateDrivingScore and getScoreBreakdown   *)
(* applied to every observation, then to the same observation with a       *)
(* higher precipitation intensity.                                         *)
(***************************************************************************)
Temperatures == {-11, -10, -6, -5, -1, 0, 1, 5, 6}

\* 0..6 are the SMHI pcat codes; 7 stands for a code outside the table.
PrecipTypes == 0..7

\* Tenths of mm/h.
Intensities == {0, 1, 5, 6, 10, 11, 20, 21, 40, 41, 50, 80, 81}

WindSpeeds == {4, 5, 9, 10, 12, 14, 15, 19, 20}

\* Tenths of km.
Visibilities == {4, 5, 9, 10, 19, 20, 49, 50, 99, 100}

Observations ==
    [temperature : Temperatures, precipitationType : PrecipTypes,
     precipitationIntensity : Intensities, windSpeed : WindSpeeds,
     visibility : Visibilities, weatherSymbol : {1}]

ScoreOf(w) == [score |-> calculateDrivingScore(w), breakdown |-> getScoreBreakdown(w)]

InitScorer ==
    /\ AppIdle
    /\ RouteIdle
    /\ waypoints = << >>
    /\ callState = "ready"
    /\ SummaryIdle
    /\ weather \in Observations
    /\ weatherHigher = weather
    /\ scored = << >>

Score ==
    /\ callState = "ready"
    /\ scored' = << ScoreOf(weather) >>
    /\ callState' = "scored"
    /\ UNCHANGED <<appVars, routeVars, waypoints, weather, weatherHigher, summaryVars>>

ScoreHigher ==
    /\ callState = "scored"
    /\ \E i \in Intensities :
          /\ i > weather.precipitationIntensity
          /\ weatherHigher' = [weather EXCEPT !.precipitationIntensity = i]
          /\ scored' = Append(scored, ScoreOf(weatherHigher'))
    /\ callState' = "rescored"
    /\ UNCHANGED <<appVars, routeVars, waypoints, weather, summaryVars>>

NextScorer == Score \/ ScoreHigher

SpecScorer == InitScorer /\ [][NextScorer]_vars

(***************************************************************************)
(* The assessment specification: assessTrip applied to a waypoint list and *)
(* a weather map, and getConditionSeverity to each scored waypoint.        *)
(***************************************************************************)
MaxAssessPoints == 5

\* The list calculateWaypoints returns for a route of n - 1 hours.
WaypointList(n) ==
    IF n = 0 THEN << >>
    ELSE calculateWaypoints(
             [distance |-> 100 * (n - 1), duration |-> 3600 * (n - 1),
              steps |-> << [name |-> "E4", duration |-> 3600 * (n - 1)] >>,
              geometry |-> 2],
             0, "from", "to")

Obs(temperature, precipType, intensity, wind, visibility, symbol) ==
    [temperature |-> temperature, precipitationType |-> precipType,
     precipitationIntensity |-> intensity, windSpeed |-> wind,
     visibility |-> visibility, weatherSymbol |-> symbol]

\* Clear sky; light rain; moderate rain in reduced visibility; heavy snow.
ClearSky == Obs(10, 0, 0, 0, 500, 1)
LightRain == Obs(10, 3, 10, 0, 500, 8)
ModerateRain == Obs(10, 3, 30, 0, 40, 18)
HeavySnow == Obs(-6, 1, 50, 12, 20, 25)

AssessPalette == {ClearSky, LightRain, ModerateRain, HeavySnow}

\* One observation on each side of every threshold of the two classifications.
BoundaryObservations ==
    { Obs(10, 3, i, w, v, s) :
        i \in {20, 21, 40, 41}, w \in {15, 16, 20, 21}, v \in {29, 30, 49, 50},
        s \in {1, 9, 10, 19, 20, 27} }

\* Every map over a set of keys: each key unset, null or an observation.
MapsOver(keys, palette) ==
    UNION { [d -> {Null} \cup {Some(o) : o \in palette}] : d \in SUBSET keys }

severitiesOf(wps, m) ==
    [i \in {k \in 0..(Len(wps) - 1) : hasWeather(m, k)} |->
        getConditionSeverity(getWeatherAt(m, i))]

InitAssess ==
    /\ AppIdle
    /\ RouteIdle
    /\ callState = "ready"
    /\ ScorerIdle
    /\ weatherDataOffset = EmptyMap
    /\ summary = NoSummary
    /\ \/ /\ \E n \in 0..MaxAssessPoints : waypoints = WaypointList(n)
          /\ weatherData \in MapsOver(0..(MaxAssessPoints - 1), AssessPalette)
       \/ /\ waypoints = WaypointList(1)
          /\ \E o \in BoundaryObservations : weatherData = (0 :> Some(o))

AssessTrip ==
    /\ callState = "ready"
    /\ summary' = [summary EXCEPT
                     !.assessment = Some(assessTrip(waypoints, weatherData)),
                     !.severities = severitiesOf(waypoints, weatherData)]
    /\ callState' = "assessed"
    /\ UNCHANGED <<appVars, routeVars, waypoints, scorerVars, weatherData, weatherDataOffset>>

NextAssess == AssessTrip

SpecAssess == InitAssess /\ [][NextAssess]_vars

(***************************************************************************)
(* The comparison specification: one render of WeatherSummary over a       *)
(* baseline and a +1h map, and getWaitMessage applied to the assessments   *)
(* of both.                                                                *)
(***************************************************************************)
MaxComparePoints == 2

\* Scores 90, 97, 92 and 31.
Windy == Obs(10, 0, 0, 12, 500, 1)
ColdDry == Obs(-1, 0, 0, 0, 500, 1)
ColdBreezy == Obs(-1, 0, 0, 5, 500, 1)

ComparePalette == {Windy, ColdDry, ColdBreezy, HeavySnow}

InitCompare ==
    /\ AppIdle
    /\ RouteIdle
    /\ callState = "ready"
    /\ ScorerIdle
    /\ summary = NoSummary
    /\ \E n \in 0..MaxComparePoints :
          /\ waypoints = WaypointList(n)
          /\ weatherData \in MapsOver(0..(n - 1), ComparePalette)
          /\ weatherDataOffset \in MapsOver(0..(n - 1), ComparePalette)

RenderWeatherSummary ==
    /\ callState = "ready"
    /\ summary' = renderWeatherSummary(waypoints, weatherData, weatherDataOffset)
    /\ callState' = "rendered"
    /\ UNCHANGED <<appVars, routeVars, waypoints, scorerVars, weatherData, weatherDataOffset>>

GetWaitMessage ==
    /\ callState = "ready"
    /\ \E offsetAssessment \in {Null, Some(assessTrip(waypoints, weatherDataOffset))} :
          summary' =
              [summary EXCEPT
                 !.assessment = Some(assessTrip(waypoints, weatherData)),
                 !.offsetAssessment = offsetAssessment,
                 !.waitMessage =
                     getWaitMessage(assessTrip(waypoints, weatherData), offsetAssessment,
                                    weatherData, weatherDataOffset)]
    /\ callState' = "compared"
    /\ UNCHANGED <<appVars, routeVars, waypoints, scorerVars, weatherData, weatherDataOffset>>

NextCompare == RenderWeatherSummary \/ GetWaitMessage

SpecCompare == InitCompare /\ [][NextCompare]_vars

(***************************************************************************)
(* getWeather (src/lib/apiUtils.ts): the provider chosen by isInSweden,    *)
(* the fall-through to Open-Meteo, and the normalisation of each payload.  *)
(* Coordinates are in tenths of a degree.  A response is [ok, series]: ok  *)
(* is response.ok (a rejected fetch counts as not ok) and series the time  *)
(* series of the payload, each entry a record whose fields are << >> when  *)
(* the payload lacks them and << value >> otherwise.  Open-Meteo reports   *)
(* visibility in metres.  sunrise and sunset are kept apart from the       *)
(* observation: openMeteoSunTimes gives Open-Meteo's, and the estimate      *)
(* calculateSunTimes makes for SMHI is left out.                            *)
(***************************************************************************)
\* The bounding box tested on the latitude alone.
isInSwedenLatitudeOnly(lat, lon) == lat >= 550 /\ lat <= 695

isInSweden(lat, lon) == lat >= 550 /\ lat <= 695 /\ lon >= 105 /\ lon <= 245

\* Math.abs
Abs(x) == IF x < 0 THEN -x ELSE x

\* The loop with diff <= closestDiff: of equally close entries the last wins.
RECURSIVE closestLoopLastWins(_, _, _, _, _)
closestLoopLastWins(times, target, i, index, diff) ==
    IF i >= Len(times) THEN index
    ELSE IF diff = << >> \/ Abs(times[i + 1] - target) <= diff[1]
         THEN closestLoopLastWins(times, target, i + 1, i, << Abs(times[i + 1] - target) >>)
         ELSE closestLoopLastWins(times, target, i + 1, index, diff)

\* for (let i = 0; i < length; i++) { if (diff < closestDiff) { ... } }
\* with index for closestIndex and diff for closestDiff, << >> standing for
\* Infinity.  times[i + 1] is the code's entry i, parsed to seconds.
RECURSIVE closestLoop(_, _, _, _, _)
closestLoop(times, target, i, index, diff) ==
    IF i >= Len(times) THEN index
    ELSE IF diff = << >> \/ Abs(times[i + 1] - target) < diff[1]
         THEN closestLoop(times, target, i + 1, i, << Abs(times[i + 1] - target) >>)
         ELSE closestLoop(times, target, i + 1, index, diff)

\* closestIndex of getWeatherFromSMHI, over data.timeSeries[i].validTime.
closestTimeSeriesIndex(times, target) == closestLoop(times, target, 0, 0, << >>)

\* closestIndex of getWeather's Open-Meteo branch, over data.hourly.time.
closestHourlyIndex(times, target) == closestLoop(times, target, 0, 0, << >>)

\* data.timeSeries[closestIndex]: the first entry, as the series of a
\* response modelled here has at most one entry.
closestForecast(series) == series[1]

\* A missing parameter reported as -1 instead of 0.
getParamMinusOne(forecast, name) ==
    IF forecast[name] = << >> THEN -1 ELSE forecast[name][1]

\* const getParam = (name) => param ? param.values[0] : 0
getParam(forecast, name) ==
    IF forecast[name] = << >> THEN 0 ELSE forecast[name][1]

\* Codes above 27 passed through instead of defaulted.
mapSMHIWeatherSymbolNoDefault(code) ==
    IF code <= 2 THEN 1
    ELSE IF code <= 4 THEN 2
    ELSE IF code <= 6 THEN 3
    ELSE IF code = 7 THEN 4
    ELSE IF code <= 10 THEN 5
    ELSE IF code <= 14 THEN 6
    ELSE IF code <= 17 THEN 8
    ELSE IF code <= 20 THEN 6
    ELSE IF code <= 27 THEN 9
    ELSE code

mapSMHIWeatherSymbol(code) ==
    IF code <= 2 THEN 1
    ELSE IF code <= 4 THEN 2
    ELSE IF code <= 6 THEN 3
    ELSE IF code = 7 THEN 4
    ELSE IF code <= 10 THEN 5
    ELSE IF code <= 14 THEN 6
    ELSE IF code <= 17 THEN 8
    ELSE IF code <= 20 THEN 6
    ELSE IF code <= 27 THEN 9
    ELSE 1

\* The request was refused, or forecast is undefined and forecast.parameters
\* throws a TypeError.
getWeatherFromSMHIThrows(response) == ~response.ok \/ response.series = << >>

\* visibility || 50: a visibility of 0 km is replaced by 50 km as well.
getWeatherFromSMHI(response) ==
    LET forecast == closestForecast(response.series)
        visibility == getParam(forecast, "vis")
    IN  [temperature |-> getParam(forecast, "t"),
         precipitationType |-> getParam(forecast, "pcat"),
         precipitationIntensity |-> getParam(forecast, "pmean"),
         windSpeed |-> getParam(forecast, "ws"),
         visibility |-> IF visibility = 0 THEN 500 ELSE visibility,
         weatherSymbol |-> mapSMHIWeatherSymbol(getParam(forecast, "Wsymb2"))]

mapWeatherCodeToSymbol(code) ==
    IF code = 0 THEN 1
    ELSE IF code = 1 \/ code = 2 THEN 2
    ELSE IF code = 3 THEN 3
    ELSE IF code >= 45 /\ code <= 48 THEN 4
    ELSE IF code >= 51 /\ code <= 55 THEN 5
    ELSE IF code >= 61 /\ code <= 65 THEN 6
    ELSE IF code >= 80 /\ code <= 82 THEN 7
    ELSE IF code >= 71 /\ code <= 77 THEN 8
    ELSE IF code >= 95 /\ code <= 99 THEN 9
    ELSE 1

\* The precipitationType expression of getWeather's return value.
openMeteoPrecipitationType(weatherCode) ==
    IF weatherCode >= 60 /\ weatherCode < 70 THEN 1
    ELSE IF weatherCode >= 70 /\ weatherCode < 80 THEN 2
    ELSE 0

\* data.hourly.<column>[closestIndex] || fallback: undefined (an empty
\* series or a missing value) and 0 both give the fallback.
hourlyOr(series, column, fallback) ==
    IF series = << >> THEN fallback
    ELSE IF series[1][column] = << >> THEN fallback
    ELSE IF series[1][column][1] = 0 THEN fallback
    ELSE series[1][column][1]

getWeatherFromOpenMeteoThrows(response) == ~response.ok

\* targetTime.toISOString().split('T')[0]: the UTC day, as a day number.
dateOf(t) == t \div 86400

\* data.daily.time.findIndex(d => d === targetDateStr), 0 for the code's -1.
RECURSIVE findDayIndex(_, _, _)
findDayIndex(days, date, i) ==
    IF i > Len(days) THEN 0
    ELSE IF days[i].time = date THEN i
    ELSE findDayIndex(days, date, i + 1)

\* The sunrise and sunset of getWeather's Open-Meteo branch.  d is data.daily
\* (<< >> when the payload has none), each of its entries a day number with
\* a sunrise and a sunset that are << >> when empty.
openMeteoSunTimes(d, target) ==
    IF d = << >> THEN [sunrise |-> << >>, sunset |-> << >>]
    ELSE LET dayIndex == findDayIndex(d[1], dateOf(target), 1)
         IN  IF dayIndex = 0 THEN [sunrise |-> << >>, sunset |-> << >>]
             ELSE [sunrise |-> d[1][dayIndex].sunrise, sunset |-> d[1][dayIndex].sunset]

\* visibility in tenths of a km: metres / 1000 * 10.
getWeatherFromOpenMeteo(response) ==
    LET weatherCode == hourlyOr(response.series, "weather_code", 0)
    IN  [temperature |-> hourlyOr(response.series, "temperature_2m", 0),
         precipitationType |-> openMeteoPrecipitationType(weatherCode),
         precipitationIntensity |-> hourlyOr(response.series, "precipitation", 0),
         windSpeed |-> hourlyOr(response.series, "wind_speed_10m", 0),
         visibility |-> hourlyOr(response.series, "visibility", 50000) \div 100,
         weatherSymbol |-> mapWeatherCodeToSymbol(weatherCode)]

(***************************************************************************)
(* The provider specification: one getWeather call for every coordinate    *)
(* and every pair of provider answers.                                     *)
(***************************************************************************)
Latitudes == {549, 550, 620, 695, 696}
Longitudes == {104, 105, 180, 245, 246}

\* A field of a payload: absent, or one of these values.
Field(values) == {Null} \cup {Some(v) : v \in values}

SMHIForecasts ==
    [t : Field({-3}), ws : Field({4}), vis : Field({0, 70}), pcat : Field({3}),
     pmean : Field({12}), Wsymb2 : {Some(3)}]
    \cup
    [t : {Some(-3)}, ws : {Some(4)}, vis : {Some(70)}, pcat : {Some(3)},
     pmean : {Some(12)}, Wsymb2 : Field(-1..29)]

SMHIResponses ==
    { [ok |-> FALSE, series |-> << >>], [ok |-> TRUE, series |-> << >>] }
    \cup { [ok |-> TRUE, series |-> << f >>] : f \in SMHIForecasts }

OpenMeteoHours ==
    [temperature_2m : Field({-3}), precipitation : Field({12}),
     wind_speed_10m : Field({4}), visibility : Field({0, 7000}),
     weather_code : {Some(61)}]
    \cup
    [temperature_2m : {Some(-3)}, precipitation : {Some(12)},
     wind_speed_10m : {Some(4)}, visibility : {Some(7000)},
     weather_code : Field(0..100)]

OpenMeteoResponses ==
    { [ok |-> FALSE, series |-> << >>], [ok |-> TRUE, series |-> << >>] }
    \cup { [ok |-> TRUE, series |-> << h >>] : h \in OpenMeteoHours }

\* One complete answer of each provider.
SMHIComplete ==
    [ok |-> TRUE,
     series |-> << [t |-> Some(-3), ws |-> Some(4), vis |-> Some(70),
                    pcat |-> Some(3), pmean |-> Some(12), Wsymb2 |-> Some(3)] >>]

OpenMeteoComplete ==
    [ok |-> TRUE,
     series |-> << [temperature_2m |-> Some(-3), precipitation |-> Some(12),
                    wind_speed_10m |-> Some(4), visibility |-> Some(7000),
                    weather_code |-> Some(61)] >>]

InitWeather ==
    /\ RouteIdle
    /\ waypoints = << >>
    /\ callState = "ready"
    /\ ScorerIdle
    /\ SummaryIdle
    /\ IndexIdle
    /\ LabelIdle
    /\ DerivedIdle
    /\ coords \in [lat : Latitudes, lon : Longitudes]
    /\ \/ /\ smhiResponse \in SMHIResponses
          /\ openMeteoResponse \in {OpenMeteoComplete, [ok |-> FALSE, series |-> << >>]}
       \/ /\ smhiResponse \in {SMHIComplete, [ok |-> FALSE, series |-> << >>]}
          /\ openMeteoResponse \in OpenMeteoResponses
    /\ attempts = << >>
    /\ observation = Null

\* getWeather up to the end of its SMHI attempt.
RequestSMHI ==
    /\ callState = "ready"
    /\ isInSweden(coords.lat, coords.lon)
    /\ attempts' = Append(attempts, "SMHI")
    /\ IF getWeatherFromSMHIThrows(smhiResponse)
       THEN /\ callState' = "fallback"
            /\ UNCHANGED observation
       ELSE /\ callState' = "returned"
            /\ observation' = Some(getWeatherFromSMHI(smhiResponse))
    /\ UNCHANGED <<routeVars, waypoints, scorerVars, summaryVars, indexVars, labelVars,
                   derivedVars, coords, smhiResponse, openMeteoResponse>>

\* getWeather from its Open-Meteo request on.
RequestOpenMeteo ==
    /\ \/ callState = "ready" /\ ~isInSweden(coords.lat, coords.lon)
       \/ callState = "fallback"
    /\ attempts' = Append(attempts, "OpenMeteo")
    /\ IF getWeatherFromOpenMeteoThrows(openMeteoResponse)
       THEN /\ callState' = "threw"
            /\ UNCHANGED observation
       ELSE /\ callState' = "returned"
            /\ observation' = Some(getWeatherFromOpenMeteo(openMeteoResponse))
    /\ UNCHANGED <<routeVars, waypoints, scorerVars, summaryVars, indexVars, labelVars,
                   derivedVars, coords, smhiResponse, openMeteoResponse>>

NextWeather == RequestSMHI \/ RequestOpenMeteo

SpecWeather == InitWeather /\ [][NextWeather]_vars

(***************************************************************************)
(* The label specification: getDrivingScoreLabel applied to every score.   *)
(***************************************************************************)
getDrivingScoreLabel(s) ==
    IF s >= 90 THEN "Excellent"
    ELSE IF s >= 70 THEN "Good"
    ELSE IF s >= 50 THEN "Fair"
    ELSE IF s >= 30 THEN "Poor"
    ELSE "Hazardous"

InitLabel ==
    /\ RouteIdle
    /\ waypoints = << >>
    /\ callState = "ready"
    /\ ScorerIdle
    /\ SummaryIdle
    /\ IndexIdle
    /\ ProviderIdle
    /\ DerivedIdle
    /\ score \in 0..100
    /\ scoreLabel = Null

\* const scoreLabel = getDrivingScoreLabel(score)
LabelScore ==
    /\ callState = "ready"
    /\ scoreLabel' = Some(getDrivingScoreLabel(score))
    /\ callState' = "labelled"
    /\ UNCHANGED <<routeVars, waypoints, scorerVars, summaryVars, indexVars,
                   providerVars, derivedVars, score>>

NextLabel == LabelScore

SpecLabel == InitLabel /\ [][NextLabel]_vars

(***************************************************************************)
(* Index (src/pages/Index.tsx): handleSubmit between its awaits, the       *)
(* weather fetches it and fetch3hOffsetWeather have in flight, and the     *)
(* effect of WeatherSummary that requests the +3h check.  A fetch in       *)
(* flight is [kind, index, trip]: trip is the submission that issued it,   *)
(* which the code does not record.  RouteInput disables its button while   *)
(* isLoading, so one handleSubmit call runs at a time.  loadingStates,      *)
(* fromName and toName are display state and left out.                     *)
(***************************************************************************)
MaxTrips == 2

\* Route durations in hours: one waypoint, or two.
TripHours == {0, 1}

\* What getRoute may return: a route of whole hours, its geometry empty or not.
TripRoutes ==
    { [distance |-> 100 * h, duration |-> 3600 * h,
       steps |-> << [name |-> "E4", duration |-> 3600 * h] >>, geometry |-> g] :
        h \in TripHours, g \in {0, 2} }

\* What a getWeather call may settle with: null stands for a rejection,
\* which each fetch's own catch turns into a null result.
BaselineOutcomes == {Null, Some(ClearSky), Some(Windy)}
OffsetOutcomes == {Null, Some(ClearSky), Some(Windy), Some(HeavySnow)}
Offset3hOutcomes == {Null, Some(ClearSky)}

NothingIssued ==
    [baseline |-> 0, offset |-> 0, offset3h |-> 0, checks3h |-> 0, failed |-> {}]

fetchesFor(kind, wps, t) ==
    { [kind |-> kind, index |-> i, trip |-> t] : i \in 0..(Len(wps) - 1) }

\* prev => new Map(prev).set(index, weather)
mapSet(m, index, w) ==
    [k \in DOMAIN m \cup {index} |-> IF k = index THEN w ELSE m[k]]

\* The map built from the results that loaded only.
buildWeatherDataLoadedOnly(collected) ==
    [k \in {i \in DOMAIN collected : collected[i] # Null} |-> collected[k]]

\* weatherResults.forEach(result => newWeatherData.set(result.index, result.weather))
buildWeatherData(collected) == collected

\* The progress counted for the fetches that loaded only.
progressAfterLoadedOnly(prev, w) ==
    IF w = Null THEN prev ELSE [prev EXCEPT !.current = @ + 1]

\* setWeatherProgress(prev => ({ ...prev, current: prev.current + 1 })), in
\* the try and in the catch of each baseline fetch.
progressAfter(prev, w) == [prev EXCEPT !.current = @ + 1]

\* if (tripScore === null || tripScore <= 90)
needsOffsetComparison(m) ==
    LET tripScore == calculateTripAverageScore(m)
    IN  tripScore = Null \/ tripScore[1] <= 90

\* The catch block that leaves the splash screen up.
handleSubmitCatchKeepsLoading ==
    [loadingStage |-> "route", isLoading |-> TRUE, error |-> Some("message")]

\* catch (err) { setLoadingStage('idle'); setIsLoading(false); setError(...) }
handleSubmitCatch ==
    [loadingStage |-> "idle", isLoading |-> FALSE, error |-> Some("message")]

\* {!isLoading && routeData && departureTime && ... <WeatherSummary .../>}
mounted(loading, rd) == ~loading /\ rd # Null

\* What Index shows of the summary.
renderIndex(loading, rd, wps, m, offsetMap) ==
    IF mounted(loading, rd) THEN renderWeatherSummary(wps, m, offsetMap) ELSE NoSummary

\* The effect's test without !has3hCheckTriggered.
shouldRequest3hCheckEveryRun(wps, m, offsetMap, triggered) ==
    IF loadedCountOf(m) = 0 \/ Len(wps) = 0 THEN FALSE
    ELSE IF ~needsOffsetComparison(m) THEN FALSE
    ELSE LET waitMessage ==
                 getWaitMessage(assessTrip(wps, m), offsetAssessmentOf(wps, offsetMap),
                                m, offsetMap)
         IN  /\ loadedCountOf(offsetMap) = Len(wps)
             /\ waitMessage \in {"notImprove", "worsen"}

\* The useEffect of WeatherSummary up to its if: the two messages it
\* compares with are the ones without a score.
shouldRequest3hCheck(wps, m, offsetMap, triggered) ==
    IF loadedCountOf(m) = 0 \/ Len(wps) = 0 THEN FALSE
    ELSE IF ~needsOffsetComparison(m) THEN FALSE
    ELSE LET waitMessage ==
                 getWaitMessage(assessTrip(wps, m), offsetAssessmentOf(wps, offsetMap),
                                m, offsetMap)
         IN  /\ loadedCountOf(offsetMap) = Len(wps)
             /\ waitMessage \in {"notImprove", "worsen"}
             /\ ~triggered

tripFrame == <<routeVars, callState, scorerVars, providerVars, labelVars, derivedVars>>

Rerender ==
    summary' = renderIndex(isLoading', routeData', waypoints', weatherData',
                           weatherDataOffset')

InitTrip ==
    /\ RouteIdle
    /\ waypoints = << >>
    /\ callState = "ready"
    /\ ScorerIdle
    /\ SummaryIdle
    /\ ProviderIdle
    /\ LabelIdle
    /\ DerivedIdle
    /\ IndexIdle

\* handleSubmit up to its first await.  WeatherSummary unmounts as
\* isLoading turns true, and its state is lost.
Submit ==
    /\ ~isLoading
    /\ trip < MaxTrips
    /\ isLoading' = TRUE
    /\ loadingStage' = "route"
    /\ error' = Null
    /\ routeData' = Null
    /\ waypoints' = << >>
    /\ weatherData' = EmptyMap
    /\ weatherDataOffset' = EmptyMap
    /\ weatherDataOffset3h' = EmptyMap
    /\ isLoading3hOffset' = FALSE
    /\ has3hCheckTriggered' = FALSE
    /\ pc' = "geocode"
    /\ results' = EmptyMap
    /\ trip' = trip + 1
    /\ issued' = NothingIssued
    /\ weatherProgress' = [current |-> 0, total |-> 0]
    /\ UNCHANGED <<tripFrame, pending>>
    /\ Rerender

\* The catch block of handleSubmit.
Catch ==
    /\ loadingStage' = handleSubmitCatch.loadingStage
    /\ isLoading' = handleSubmitCatch.isLoading
    /\ error' = handleSubmitCatch.error
    /\ pc' = "failed"

GeocodeSucceeds ==
    /\ pc = "geocode"
    /\ pc' = "route"
    /\ UNCHANGED <<tripFrame, weatherProgress, isLoading, loadingStage, error, routeData, waypoints,
                   weatherData, weatherDataOffset, weatherDataOffset3h,
                   isLoading3hOffset, has3hCheckTriggered, results, pending, trip,
                   issued>>
    /\ Rerender

GeocodeFails ==
    /\ pc = "geocode"
    /\ Catch
    /\ UNCHANGED <<tripFrame, weatherProgress, routeData, waypoints, weatherData, weatherDataOffset,
                   weatherDataOffset3h, isLoading3hOffset, has3hCheckTriggered,
                   results, pending, trip, issued>>
    /\ Rerender

RouteFails ==
    /\ pc = "route"
    /\ Catch
    /\ UNCHANGED <<tripFrame, weatherProgress, routeData, waypoints, weatherData, weatherDataOffset,
                   weatherDataOffset3h, isLoading3hOffset, has3hCheckTriggered,
                   results, pending, trip, issued>>
    /\ Rerender

\* getRoute returned: setRouteData, calculateWaypoints and, unless it threw,
\* the baseline fetches.
RouteSucceeds ==
    /\ pc = "route"
    /\ \E r \in TripRoutes :
          /\ routeData' = Some(r)
          /\ IF calculateWaypointsThrows(r)
             THEN /\ Catch
                  /\ UNCHANGED <<waypoints, pending, issued, weatherProgress>>
             ELSE /\ waypoints' = calculateWaypoints(r, departureTime, "from", "to")
                  /\ loadingStage' = "weather"
                  /\ weatherProgress' = [current |-> 0, total |-> Len(waypoints')]
                  /\ pending' = pending \cup fetchesFor("baseline", waypoints', trip)
                  /\ issued' = [issued EXCEPT !.baseline = Len(waypoints')]
                  /\ pc' = "weather"
                  /\ UNCHANGED <<isLoading, error>>
    /\ UNCHANGED <<tripFrame, weatherData, weatherDataOffset, weatherDataOffset3h,
                   isLoading3hOffset, has3hCheckTriggered, results, trip>>
    /\ Rerender

\* One baseline getWeather settles; with the last one Promise.all resolves
\* and handleSubmit runs on to its next await.
WeatherFetchDone ==
    /\ pc = "weather"
    /\ \E f \in pending, w \in BaselineOutcomes :
          /\ f.kind = "baseline"
          /\ weatherProgress' = progressAfter(weatherProgress, w)
          /\ issued' = [issued EXCEPT !.failed = IF w = Null THEN @ \cup {f.index} ELSE @,
                                      !.offset =
                                          IF /\ \A g \in pending \ {f} : g.kind # "baseline"
                                             /\ needsOffsetComparison(
                                                    buildWeatherData(mapSet(results, f.index, w)))
                                          THEN Len(waypoints) ELSE @]
          /\ IF \E g \in pending \ {f} : g.kind = "baseline"
             THEN /\ results' = mapSet(results, f.index, w)
                  /\ pending' = pending \ {f}
                  /\ UNCHANGED <<weatherData, loadingStage, pc>>
             ELSE /\ weatherData' = buildWeatherData(mapSet(results, f.index, w))
                  /\ results' = EmptyMap
                  /\ IF needsOffsetComparison(weatherData')
                     THEN /\ pending' = (pending \ {f})
                                            \cup fetchesFor("offset", waypoints, trip)
                          /\ pc' = "offset"
                          /\ UNCHANGED loadingStage
                     ELSE /\ pending' = pending \ {f}
                          /\ loadingStage' = "preparing"
                          /\ pc' = "preparing"
    /\ UNCHANGED <<tripFrame, isLoading, error, routeData, waypoints, weatherDataOffset,
                   weatherDataOffset3h, isLoading3hOffset, has3hCheckTriggered, trip>>
    /\ Rerender

\* One +1h getWeather settles; with the last one the +1h map is set.
OffsetFetchDone ==
    /\ pc = "offset"
    /\ \E f \in pending, w \in OffsetOutcomes :
          /\ f.kind = "offset"
          /\ pending' = pending \ {f}
          /\ IF \E g \in pending \ {f} : g.kind = "offset"
             THEN /\ results' = mapSet(results, f.index, w)
                  /\ UNCHANGED <<weatherDataOffset, loadingStage, pc>>
             ELSE /\ weatherDataOffset' = buildWeatherData(mapSet(results, f.index, w))
                  /\ results' = EmptyMap
                  /\ loadingStage' = "preparing"
                  /\ pc' = "preparing"
    /\ UNCHANGED <<tripFrame, weatherProgress, isLoading, error, routeData, waypoints, weatherData,
                   weatherDataOffset3h, isLoading3hOffset, has3hCheckTriggered, trip,
                   issued>>
    /\ Rerender

\* The 300 ms timer: the results are shown and WeatherSummary mounts.
PreparingDone ==
    /\ pc = "preparing"
    /\ loadingStage' = "idle"
    /\ isLoading' = FALSE
    /\ pc' = "done"
    /\ UNCHANGED <<tripFrame, weatherProgress, error, routeData, waypoints, weatherData,
                   weatherDataOffset, weatherDataOffset3h, isLoading3hOffset,
                   has3hCheckTriggered, results, pending, trip, issued>>
    /\ Rerender

\* The effect of WeatherSummary fires and calls onRequest3hCheck, which is
\* fetch3hOffsetWeather up to its await.
Request3hCheck ==
    /\ mounted(isLoading, routeData)
    /\ shouldRequest3hCheck(waypoints, weatherData, weatherDataOffset,
                            has3hCheckTriggered)
    /\ has3hCheckTriggered' = TRUE
    /\ isLoading3hOffset' = TRUE
    /\ weatherDataOffset3h' = EmptyMap
    /\ pending' = pending \cup fetchesFor("offset3h", waypoints, trip)
    /\ issued' = [issued EXCEPT !.checks3h = Min(@ + 1, 2),
                                !.offset3h = Len(waypoints)]
    /\ UNCHANGED <<tripFrame, weatherProgress, isLoading, loadingStage, error, routeData, waypoints,
                   weatherData, weatherDataOffset, pc, results, trip>>
    /\ Rerender

\* One +3h getWeather settles; with the last one of its round
\* fetch3hOffsetWeather clears isLoading3hOffset.
Fetch3hDone ==
    /\ \E f \in pending, w \in Offset3hOutcomes :
          /\ f.kind = "offset3h"
          /\ weatherDataOffset3h' = mapSet(weatherDataOffset3h, f.index, w)
          /\ pending' = pending \ {f}
          /\ isLoading3hOffset' =
                IF \E g \in pending \ {f} : g.kind = "offset3h" /\ g.trip = f.trip
                THEN isLoading3hOffset
                ELSE FALSE
    /\ UNCHANGED <<tripFrame, weatherProgress, isLoading, loadingStage, error, routeData, waypoints,
                   weatherData, weatherDataOffset, has3hCheckTriggered, pc, results,
                   trip, issued>>
    /\ Rerender

\* ErrorMessage's Try Again button: onRetry={() => setError(null)}
DismissError ==
    /\ error # Null
    /\ error' = Null
    /\ UNCHANGED <<tripFrame, weatherProgress, isLoading, loadingStage, routeData, waypoints,
                   weatherData, weatherDataOffset, weatherDataOffset3h,
                   isLoading3hOffset, has3hCheckTriggered, pc, results, pending, trip,
                   issued>>
    /\ Rerender

NextTrip ==
    \/ Submit
    \/ GeocodeSucceeds
    \/ GeocodeFails
    \/ RouteFails
    \/ RouteSucceeds
    \/ WeatherFetchDone
    \/ OffsetFetchDone
    \/ PreparingDone
    \/ Request3hCheck
    \/ Fetch3hDone
    \/ DismissError

SpecTrip == InitTrip /\ [][NextTrip]_vars

\* The same machine with what the runtime guarantees: a request that is
\* in flight settles, the 300 ms timer fires, and an effect whose test
\* holds runs.  The user's own steps, a new submission and the dismissal
\* of an error, may never come.
SpecTripFair ==
    /\ SpecTrip
    /\ WF_vars(GeocodeSucceeds \/ GeocodeFails)
    /\ WF_vars(RouteSucceeds \/ RouteFails)
    /\ WF_vars(WeatherFetchDone)
    /\ WF_vars(OffsetFetchDone)
    /\ WF_vars(PreparingDone)
    /\ WF_vars(Request3hCheck)
    /\ WF_vars(Fetch3hDone)

(***************************************************************************)
(* generateNarrative (src/components/WeatherSummary.tsx) and isNightTime    *)
(* (src/lib/weatherUtils.ts).  An observation carries sunrise and sunset    *)
(* here, each << >> (null) or << seconds >>; a Date that exists is taken    *)
(* to be a valid one.  The fields the code names ...Minutes hold seconds    *)
(* from the start: every comparison between them is unchanged by the        *)
(* factor, and the one constant, 30 minutes, is 1800.  A narrative line is  *)
(* [kind, severity, detail]: detail is the segment of a segment sentence,   *)
(* the event of a sunrise or sunset line, and whether it is dark for the    *)
(* destination line.                                                        *)
(***************************************************************************)
\* A missing sunrise or sunset read as night.
isDaytimeUnknownIsNight(time, sunrise, sunset) ==
    IF sunrise = << >> \/ sunset = << >> THEN FALSE
    ELSE time >= sunrise[1] /\ time <= sunset[1]

isDaytime(time, sunrise, sunset) ==
    IF sunrise = << >> \/ sunset = << >> THEN TRUE
    ELSE time >= sunrise[1] /\ time <= sunset[1]

isNightTime(time, sunrise, sunset) ==
    IF sunrise = << >> \/ sunset = << >> THEN FALSE
    ELSE time < sunrise[1] \/ time > sunset[1]

\* The key of seenEvents: the event type and the UTC day of its time.
eventKey(type, time) == << type, dateOf(time) >>

\* One branch of the first pass, for the sunrise or the sunset of a waypoint.
collectEvent(acc, type, time, index, tripStart, tripEnd) ==
    IF /\ time # << >>
       /\ time[1] >= tripStart /\ time[1] <= tripEnd
       /\ eventKey(type, time[1]) \notin acc.seenEvents
    THEN [seenEvents |-> acc.seenEvents \cup {eventKey(type, time[1])},
          potentialEvents |->
              Append(acc.potentialEvents,
                     [type |-> type, time |-> time[1], waypointIndex |-> index])]
    ELSE acc

\* The first pass of findDaylightEvents, from waypoint index on.
RECURSIVE collectEvents(_, _, _, _, _, _)
collectEvents(wps, m, tripStart, tripEnd, index, acc) ==
    IF index >= Len(wps) THEN acc.potentialEvents
    ELSE IF ~hasWeather(m, index)
         THEN collectEvents(wps, m, tripStart, tripEnd, index + 1, acc)
         ELSE LET w == getWeatherAt(m, index)
                  afterSunrise ==
                      collectEvent(acc, "sunrise", w.sunrise, index, tripStart, tripEnd)
              IN  collectEvents(wps, m, tripStart, tripEnd, index + 1,
                                collectEvent(afterSunrise, "sunset", w.sunset, index,
                                             tripStart, tripEnd))

\* The waypoint closest in time to an event, the first of equally close ones.
RECURSIVE closestWaypoint(_, _, _, _, _)
closestWaypoint(wps, eventTime, index, closest, diff) ==
    IF index >= Len(wps) THEN closest
    ELSE IF Abs(wps[index + 1].arrivalTime - eventTime) < diff
         THEN closestWaypoint(wps, eventTime, index + 1, index,
                              Abs(wps[index + 1].arrivalTime - eventTime))
         ELSE closestWaypoint(wps, eventTime, index + 1, closest, diff)

\* The second pass for one potential event: << >> when it pushes nothing.
accurateEvent(wps, m, event, tripStart) ==
    LET closest == closestWaypoint(wps, event.time, 0, 0,
                                   Abs(wps[1].arrivalTime - event.time))
    IN  IF ~hasWeather(m, closest) THEN << >>
        ELSE LET closestWeather == getWeatherAt(m, closest)
                 accurateTime == IF event.type = "sunrise" THEN closestWeather.sunrise
                                 ELSE closestWeather.sunset
             IN  IF accurateTime = << >> THEN << >>
                 ELSE << [type |-> event.type, time |-> accurateTime[1],
                          minutesFromStart |-> accurateTime[1] - tripStart,
                          location |-> wps[closest + 1].name] >>

RECURSIVE accurateEvents(_, _, _, _, _)
accurateEvents(wps, m, potentialEvents, tripStart, i) ==
    IF i > Len(potentialEvents) THEN << >>
    ELSE accurateEvent(wps, m, potentialEvents[i], tripStart)
           \o accurateEvents(wps, m, potentialEvents, tripStart, i + 1)

\* events.sort((a, b) => a.minutesFromStart - b.minutesFromStart): a stable
\* sort, here by insertion after the entries that are not later.
RECURSIVE insertEvent(_, _, _)
insertEvent(sorted, e, i) ==
    IF i > Len(sorted) THEN Append(sorted, e)
    ELSE IF sorted[i].minutesFromStart > e.minutesFromStart
         THEN SubSeq(sorted, 1, i - 1) \o << e >> \o SubSeq(sorted, i, Len(sorted))
         ELSE insertEvent(sorted, e, i + 1)

RECURSIVE sortEvents(_, _, _)
sortEvents(events, i, sorted) ==
    IF i > Len(events) THEN sorted
    ELSE sortEvents(events, i + 1, insertEvent(sorted, events[i], 1))

\* Called with at least one waypoint, as generateNarrative does.
findDaylightEvents(wps, m, startTime) ==
    LET tripStart == startTime
        tripEnd == wps[Len(wps)].arrivalTime
        potentialEvents ==
            collectEvents(wps, m, tripStart, tripEnd, 0,
                          [seenEvents |-> {}, potentialEvents |-> << >>])
    IN  sortEvents(accurateEvents(wps, m, potentialEvents, tripStart, 1), 1, << >>)

\* The test with its three thresholds included.
shouldStartNewSegmentInclusive(currentSegment, w) ==
    \/ currentSegment = << >>
    \/ Abs(w.weatherSymbol - currentSegment[1].weather.weatherSymbol) >= 3
    \/ Abs(w.precipitationIntensity - currentSegment[1].weather.precipitationIntensity) >= 10
    \/ Abs(w.temperature - currentSegment[1].weather.temperature) >= 5

\* currentSegment is << >> for null.  Intensities are in tenths of mm/h.
shouldStartNewSegment(currentSegment, w) ==
    \/ currentSegment = << >>
    \/ Abs(w.weatherSymbol - currentSegment[1].weather.weatherSymbol) > 3
    \/ Abs(w.precipitationIntensity - currentSegment[1].weather.precipitationIntensity) > 10
    \/ Abs(w.temperature - currentSegment[1].weather.temperature) > 5

\* The grouping loop of generateNarrative and the push that follows it.
RECURSIVE segmentLoop(_, _, _, _, _)
segmentLoop(wps, m, index, segments, currentSegment) ==
    IF index >= Len(wps) THEN segments \o currentSegment
    ELSE IF ~hasWeather(m, index)
         THEN segmentLoop(wps, m, index + 1, segments, currentSegment)
         ELSE LET w == getWeatherAt(m, index)
                  minutesFromStart == wps[index + 1].arrivalTime - wps[1].arrivalTime
              IN  IF shouldStartNewSegment(currentSegment, w)
                  THEN segmentLoop(wps, m, index + 1, segments \o currentSegment,
                                   << [startIndex |-> index, endIndex |-> index,
                                       startMinutes |-> minutesFromStart,
                                       endMinutes |-> minutesFromStart,
                                       weather |-> w,
                                       startLocation |-> wps[index + 1].name,
                                       endLocation |-> wps[index + 1].name] >>)
                  ELSE segmentLoop(wps, m, index + 1, segments,
                                   << [currentSegment[1] EXCEPT
                                         !.endIndex = index,
                                         !.endMinutes = minutesFromStart,
                                         !.endLocation = wps[index + 1].name] >>)

\* Which of the five sentences a segment gets (index counted from 1).
segmentSentence(segments, index) ==
    IF index = 1
    THEN (IF Len(segments) = 1 THEN "throughout"
          ELSE IF segments[1].endMinutes < 1800 THEN "begins" ELSE "first")
    ELSE IF index = Len(segments) THEN "approach"
    ELSE "after"

\* daylightEvents.forEach inside the segment loop, from event i on.
RECURSIVE eventLines(_, _, _, _)
eventLines(segments, index, daylightEvents, i) ==
    IF i > Len(daylightEvents) THEN << >>
    ELSE (IF /\ daylightEvents[i].minutesFromStart >= segments[index].startMinutes
             /\ \/ index = Len(segments)
                \/ daylightEvents[i].minutesFromStart < segments[index + 1].startMinutes
          THEN << [kind |-> daylightEvents[i].type, severity |-> "none",
                   detail |-> daylightEvents[i]] >>
          ELSE << >>)
           \o eventLines(segments, index, daylightEvents, i + 1)

\* segments.forEach: the sentence of each segment, then its daylight events.
RECURSIVE segmentLines(_, _, _)
segmentLines(segments, index, daylightEvents) ==
    IF index > Len(segments) THEN << >>
    ELSE << [kind |-> "segment", severity |-> getConditionSeverity(segments[index].weather),
             detail |-> [sentence |-> segmentSentence(segments, index),
                         segment |-> segments[index]]] >>
           \o eventLines(segments, index, daylightEvents, 1)
           \o segmentLines(segments, index + 1, daylightEvents)

generateNarrative(wps, m) ==
    IF Len(wps) < 2 THEN << >>
    ELSE LET startTime == wps[1].arrivalTime
             endTime == wps[Len(wps)].arrivalTime
             daylightEvents == findDaylightEvents(wps, m, startTime)
             startsDuringDay ==
                 IF hasWeather(m, 0)
                 THEN isDaytime(startTime, getWeatherAt(m, 0).sunrise,
                                getWeatherAt(m, 0).sunset)
                 ELSE TRUE
             segments == segmentLoop(wps, m, 0, << >>, << >>)
             last == Len(wps) - 1
         IN  (IF ~startsDuringDay
              THEN << [kind |-> "darkness", severity |-> "none", detail |-> << >>] >>
              ELSE << >>)
               \o segmentLines(segments, 1, daylightEvents)
               \o (IF hasWeather(m, last)
                   THEN << [kind |-> "destination",
                            severity |-> getConditionSeverity(getWeatherAt(m, last)),
                            detail |-> ~isDaytime(endTime, getWeatherAt(m, last).sunrise,
                                                  getWeatherAt(m, last).sunset)] >>
                   ELSE << >>)

(***************************************************************************)
(* The aggregate specification: calculateTripAverageScore and               *)
(* getMinTripScore applied to every weather map.                            *)
(***************************************************************************)
MaxAggregatePoints == 3

\* Scores 0 and 100 next to the 90, 97, 92 and 31 of the comparison.
WorstCase == Obs(-6, 5, 81, 20, 4, 1)

AggregatePalette == ComparePalette \cup {ClearSky, WorstCase}

InitAggregate ==
    /\ AppIdle
    /\ RouteIdle
    /\ waypoints = << >>
    /\ callState = "ready"
    /\ ScorerIdle
    /\ weatherDataOffset = EmptyMap
    /\ summary = NoSummary
    /\ weatherData \in MapsOver(0..(MaxAggregatePoints - 1), AggregatePalette)

\* WeatherComparisonTable reads both aggregates of a map.
CalculateTripScores ==
    /\ callState = "ready"
    /\ tripScores' = Some([average |-> calculateTripAverageScore(weatherData),
                           min |-> getMinTripScore(weatherData)])
    /\ callState' = "aggregated"
    /\ UNCHANGED <<routeVars, waypoints, scorerVars, summaryVars, indexVars,
                   providerVars, labelVars, forecastVars, narrativeVars>>

NextAggregate == CalculateTripScores

SpecAggregate == InitAggregate /\ [][NextAggregate]_vars

(***************************************************************************)
(* The nearest-time specification: the closestIndex loops of both          *)
(* providers applied to every series of forecast times and target time.    *)
(***************************************************************************)
MaxSeries == 3

\* 23:00, 00:00 and 01:00 around a UTC midnight.
SeriesTimeValues == {82800, 86400, 90000}

\* Before, between (half-way and not), on and after the forecast times.
TargetTimes == {81000, 84600, 86400, 87000, 93600}

RECURSIVE SeqsUpTo(_, _)
SeqsUpTo(values, n) ==
    IF n = 0 THEN { << >> }
    ELSE SeqsUpTo(values, n - 1)
           \cup { Append(q, v) : q \in { x \in SeqsUpTo(values, n - 1) : Len(x) = n - 1 },
                                 v \in values }

InitNearest ==
    /\ RouteIdle
    /\ waypoints = << >>
    /\ callState = "ready"
    /\ ScorerIdle
    /\ SummaryIdle
    /\ IndexIdle
    /\ ProviderIdle
    /\ LabelIdle
    /\ tripScores = Null
    /\ daily = Null
    /\ sunTimes = Null
    /\ narrative = Null
    /\ isNight = << >>
    /\ seriesTimes \in SeqsUpTo(SeriesTimeValues, MaxSeries)
    /\ targetTimestamp \in TargetTimes
    /\ closestIndex = Null

nearestFrame ==
    <<routeVars, waypoints, scorerVars, summaryVars, indexVars, providerVars, labelVars,
      aggregateVars, narrativeVars, seriesTimes, daily, targetTimestamp, sunTimes>>

\* getWeatherFromSMHI from "Find the forecast closest to the target time"
\* to const forecast.
FindClosestSMHI ==
    /\ callState = "ready"
    /\ closestIndex' = Some(closestTimeSeriesIndex(seriesTimes, targetTimestamp))
    /\ callState' = "closestSMHI"
    /\ UNCHANGED nearestFrame

\* The same loop of getWeather's Open-Meteo branch.
FindClosestOpenMeteo ==
    /\ callState = "ready"
    /\ closestIndex' = Some(closestHourlyIndex(seriesTimes, targetTimestamp))
    /\ callState' = "closestOpenMeteo"
    /\ UNCHANGED nearestFrame

NextNearest == FindClosestSMHI \/ FindClosestOpenMeteo

SpecNearest == InitNearest /\ [][NextNearest]_vars

(***************************************************************************)
(* The narrative specification: generateNarrative, the night flag of the    *)
(* map's markers, and the sunrise and sunset getWeather reads from an       *)
(* Open-Meteo payload.  The trip leaves at 23:00 UTC of day 0, so that its  *)
(* waypoints lie on both sides of a UTC midnight, and every waypoint is in  *)
(* the map's view.                                                          *)
(***************************************************************************)
MaxNarrativePoints == 3

NarrativeDeparture == 82800

\* The list calculateWaypoints returns for a route of n - 1 hours.
NarrativeWaypoints(n) ==
    calculateWaypoints(
        [distance |-> 100 * (n - 1), duration |-> 3600 * (n - 1),
         steps |-> << [name |-> "E4", duration |-> 3600 * (n - 1)] >>,
         geometry |-> 2],
        NarrativeDeparture, "from", "to")

SunObs(temperature, intensity, symbol, sunrise, sunset) ==
    [temperature |-> temperature, precipitationType |-> 0,
     precipitationIntensity |-> intensity, windSpeed |-> 0,
     visibility |-> 500, weatherSymbol |-> symbol,
     sunrise |-> sunrise, sunset |-> sunset]

\* One observation, and one on each side of each of the three thresholds
\* from it; symbol 5 is within 3 of symbol 4 and not of symbol 1.
SegmentPalette ==
    { SunObs(10, 0, 1, Null, Null),
      SunObs(10, 0, 4, Null, Null), SunObs(10, 0, 5, Null, Null),
      SunObs(10, 10, 1, Null, Null), SunObs(10, 11, 1, Null, Null),
      SunObs(15, 0, 1, Null, Null), SunObs(16, 0, 1, Null, Null) }

\* Sunrises and sunsets that are missing, before the trip, inside it on
\* day 0 (23:50) and on day 1 (00:10), under one weather.
SunPalette ==
    { SunObs(10, 0, 1, sunrise, sunset) :
        sunrise \in {Null, Some(60000), Some(85800)},
        sunset \in {Null, Some(70000), Some(85800), Some(87000)} }

\* Changing weather together with a sunset inside the trip.
MixedPalette ==
    { SunObs(10, 0, symbol, Null, sunset) :
        symbol \in {1, 5}, sunset \in {Null, Some(85800), Some(87000)} }

DayEntry(day, sunrise, sunset) == [time |-> day, sunrise |-> sunrise, sunset |-> sunset]

\* data.daily of a payload: missing, empty, or with entries for day 0 and
\* day 1 whose sunrise or sunset may be empty.
DailyPayloads ==
    { Null, Some(<< >>) }
      \cup { Some(<< DayEntry(0, sunrise, sunset) >>) :
               sunrise \in {Null, Some(20000)}, sunset \in {Null, Some(60000)} }
      \cup { Some(<< DayEntry(0, Some(20000), Some(60000)),
                     DayEntry(1, sunrise, sunset) >>) :
               sunrise \in {Null, Some(106400)}, sunset \in {Null, Some(146400)} }

InitNarrative ==
    /\ RouteIdle
    /\ callState = "ready"
    /\ ScorerIdle
    /\ weatherDataOffset = EmptyMap
    /\ summary = NoSummary
    /\ IndexIdle
    /\ ProviderIdle
    /\ LabelIdle
    /\ tripScores = Null
    /\ seriesTimes = << >>
    /\ closestIndex = Null
    /\ sunTimes = Null
    /\ narrative = Null
    /\ isNight = << >>
    /\ \/ /\ \E n \in 1..MaxNarrativePoints :
                /\ waypoints = NarrativeWaypoints(n)
                /\ \E palette \in {SegmentPalette, SunPalette, MixedPalette} :
                       weatherData \in MapsOver(0..(n - 1), palette)
          /\ daily = Null
          /\ targetTimestamp = NarrativeDeparture
       \/ /\ waypoints = NarrativeWaypoints(1)
          /\ weatherData = EmptyMap
          /\ daily \in DailyPayloads
          /\ targetTimestamp \in TargetTimes

narrativeFrame ==
    <<routeVars, waypoints, scorerVars, summaryVars, indexVars, providerVars, labelVars,
      aggregateVars, seriesTimes, daily, targetTimestamp, closestIndex>>

\* WeatherSummary's const narrative = generateNarrative(waypoints, weatherData).
GenerateNarrative ==
    /\ callState = "ready"
    /\ narrative' = Some(generateNarrative(waypoints, weatherData))
    /\ callState' = "narrated"
    /\ UNCHANGED <<narrativeFrame, sunTimes, isNight>>

\* RouteMap's marker loop: the night flag of each waypoint's icon.
AddMarkers ==
    /\ callState = "ready"
    /\ isNight' = [i \in 1..Len(waypoints) |->
                     IF hasWeather(weatherData, i - 1)
                     THEN isNightTime(waypoints[i].arrivalTime,
                                      getWeatherAt(weatherData, i - 1).sunrise,
                                      getWeatherAt(weatherData, i - 1).sunset)
                     ELSE FALSE]
    /\ callState' = "marked"
    /\ UNCHANGED <<narrativeFrame, sunTimes, narrative>>

\* getWeather's Open-Meteo branch from "Find the sunrise/sunset for the
\* target date" to the end of the if.
ReadSunTimes ==
    /\ callState = "ready"
    /\ sunTimes' = Some(openMeteoSunTimes(daily, targetTimestamp))
    /\ callState' = "sunTimesRead"
    /\ UNCHANGED <<narrativeFrame, narrative, isNight>>

NextNarrative == GenerateNarrative \/ AddMarkers \/ ReadSunTimes

SpecNarrative == InitNarrative /\ [][NextNarrative]_vars

(***************************************************************************)
(* Claims about calculateWaypoints.                                        *)
(***************************************************************************)
Last(s) == s[Len(s)]

NonDecreasing ==
    \A i \in 1..(Len(waypoints) - 1) :
        /\ waypoints[i].arrivalTime <= waypoints[i + 1].arrivalTime
        /\ FracLeq(waypoints[i].distanceFromStart, waypoints[i + 1].distanceFromStart)

StartsAtDeparture ==
    /\ waypoints[1].arrivalTime = departureTime
    /\ FracEq(waypoints[1].distanceFromStart, Frac(0, 1))

EndsAtArrival == Last(waypoints).arrivalTime = departureTime + route.duration

EndsAtFullDistance ==
    FracEq(Last(waypoints).distanceFromStart, Frac(route.distance, 1))

\* C1 as stated: for every route with at least one geometry point and a
\* duration >= 0 the list is non-decreasing in arrivalTime and in
\* distanceFromStart, starts at the departure time with distance 0 and ends at
\* departure + duration with the route's total distance.
C1_AsStated ==
    callState = "returned" =>
        NonDecreasing /\ StartsAtDeparture /\ EndsAtArrival /\ EndsAtFullDistance

\* C1, amended: the same for every route whose duration is > 0; a route of
\* duration 0 yields the start waypoint alone, so the list still starts and
\* ends at the departure time, and its last distanceFromStart is 0 whatever
\* the route's distance.
C1_WaypointsOrdered ==
    callState = "returned" =>
        /\ NonDecreasing /\ StartsAtDeparture /\ EndsAtArrival
        /\ route.duration > 0 => EndsAtFullDistance
        /\ route.duration = 0 =>
              Len(waypoints) = 1 /\ FracEq(Last(waypoints).distanceFromStart, Frac(0, 1))

\* A route of more than two hours and 150 km has been sampled.
C1_Witness ==
    /\ callState = "returned"
    /\ route.duration > 7200 /\ route.distance = 150 /\ departureTime > 0
    /\ Len(waypoints) = 4

IsDestination(w) ==
    /\ w.name = "to"
    /\ w.point = route.geometry - 1
    /\ w.arrivalTime = departureTime + route.duration
    /\ FracEq(w.distanceFromStart, Frac(route.distance, 1))

IsStart(w) == w.name = "from" /\ w.point = 0 /\ w.arrivalTime = departureTime

IsIntermediate(w, hour) ==
    /\ w.name \notin {"from", "to"}
    /\ hour * 3600 < route.duration
    /\ w.arrivalTime = departureTime + hour * 3600

WaypointShape ==
    /\ Len(waypoints) = CeilDiv(route.duration, 3600) + 1
    /\ IsStart(waypoints[1])
    /\ \A i \in 2..(Len(waypoints) - 1) : IsIntermediate(waypoints[i], i - 1)
    /\ Len(waypoints) >= 2
    /\ IsDestination(Last(waypoints))
    /\ Cardinality({i \in 1..Len(waypoints) : waypoints[i].name = "to"}) = 1
    /\ (Len(waypoints) - 1) * 3600 >= route.duration

\* C2 as stated: for every route calculateWaypoints returns
\* ceil(duration / 3600) + 1 waypoints: the start, one intermediate per whole
\* hour strictly before the end, and exactly one destination, emitted at the
\* first hourly tick >= duration.
C2_AsStated == callState = "returned" => WaypointShape

\* C2, amended: that holds for every route whose duration is > 0; a route of
\* duration 0 yields the start waypoint alone (1 = ceil(0) + 1 waypoints, none
\* of them the destination).
C2_WaypointCount ==
    /\ callState = "returned" /\ route.duration > 0 => WaypointShape
    /\ callState = "returned" /\ route.duration = 0 =>
          Len(waypoints) = 1 /\ IsStart(waypoints[1])

\* The 5400 s, 150 km route has yielded start, hour-1 intermediate, destination.
C2_Witness ==
    /\ callState = "returned"
    /\ route.duration = 5400 /\ route.distance = 150
    /\ Len(waypoints) = 3
    /\ IsIntermediate(waypoints[2], 1)

\* The waypoint at position i of a returned list is the hour-(i - 1)
\* intermediate: every one between the start and the last.
IntermediatePositions == 2..(Len(waypoints) - 1)

\* progress * route.distance for the waypoint at hour h.
ProgressDistance(h) == Frac(h * 3600 * route.distance, route.duration)

\* C25 as stated: the intermediate waypoint at hour h sits at geometry index
\* round(progress * (pointCount - 1)), progress = h * 3600 / duration; the
\* index lies in 0..pointCount - 1 and distanceFromStart = progress * distance.
C25_AsStated ==
    callState = "returned" =>
        \A i \in IntermediatePositions :
            /\ waypoints[i].point =
                  RoundDiv((i - 1) * 3600 * (route.geometry - 1), route.duration)
            /\ waypoints[i].point \in 0..(route.geometry - 1)
            /\ FracEq(waypoints[i].distanceFromStart, ProgressDistance(i - 1))

\* C25, amended: the index is floor(progress * (pointCount - 1)), the last
\* geometry point at or before the position reached; it lies in
\* 0..pointCount - 1 and distanceFromStart = progress * distance.
C25_PointIndexFloor ==
    callState = "returned" =>
        \A i \in IntermediatePositions :
            /\ waypoints[i].point \in 0..(route.geometry - 1)
            /\ waypoints[i].point * route.duration
                  <= (i - 1) * 3600 * (route.geometry - 1)
            /\ (waypoints[i].point + 1) * route.duration
                  > (i - 1) * 3600 * (route.geometry - 1)
            /\ FracEq(waypoints[i].distanceFromStart, ProgressDistance(i - 1))

\* A route of 7201 s over three geometry points: after one hour the
\* position is 0.9997 of the way to point 1 and the waypoint sits at point 0,
\* after two hours at point 1.
C25_Witness ==
    /\ callState = "returned"
    /\ route.duration = 7201 /\ route.geometry = 3 /\ route.distance = 150
    /\ Len(waypoints) = 4
    /\ waypoints[2].point = 0
    /\ waypoints[3].point = 1

(***************************************************************************)
(* Claims about the driving score.                                         *)
(***************************************************************************)
\* C3: every score is an integer in 0..100; score + totalPenalty = 100 when
\* totalPenalty <= 100 and score = 0 otherwise; the four sub-penalties are
\* non-negative integers bounded by 40, 25, 20 and 15.
C3_ScoreBounds ==
    \A k \in 1..Len(scored) :
        LET s == scored[k].score
            b == scored[k].breakdown
        IN  /\ s \in 0..100
            /\ b.total <= 100 => s + b.total = 100
            /\ b.total > 100 => s = 0
            /\ b.precipitation \in 0..40
            /\ b.visibility \in 0..25
            /\ b.wind \in 0..20
            /\ b.surfaceRisk \in 0..15

\* An observation with every sub-penalty at its bound has been scored 0.
C3_Witness ==
    /\ callState = "scored"
    /\ scored[1].breakdown =
         [precipitation |-> 40, visibility |-> 25, wind |-> 20, surfaceRisk |-> 15,
          total |-> 100]
    /\ scored[1].score = 0

\* C4: of two observations that differ only in precipitationIntensity, the one
\* with the higher intensity never has the higher score.
C4_IntensityMonotone ==
    callState = "rescored" =>
        /\ weatherHigher.precipitationIntensity > weather.precipitationIntensity
        /\ [weatherHigher EXCEPT !.precipitationIntensity = weather.precipitationIntensity]
             = weather
        /\ scored[2].score <= scored[1].score

\* A dry observation below -10 degrees and the same one with precipitation,
\* where the surface risk moves from its dry to its wet scale.
C4_Witness ==
    /\ callState = "rescored"
    /\ weather.temperature < -10
    /\ weather.precipitationIntensity = 0
    /\ weatherHigher.precipitationIntensity = 1
    /\ scored[2].score < scored[1].score

ClaimedBase(intensity) ==
    CASE intensity \in 1..5 -> 3
      [] intensity \in 6..10 -> 7
      [] intensity \in 11..20 -> 12
      [] intensity \in 21..40 -> 18
      [] intensity \in 41..80 -> 28
      [] intensity > 80 -> 40

ClaimedMultiplier(precipType, temperature) ==
    CASE precipType = 1 -> 12
      [] precipType = 2 -> 13
      [] precipType = 3 -> 10
      [] precipType = 4 -> 8
      [] precipType = 5 -> 15
      [] precipType = 6 -> 14
      [] OTHER -> IF temperature < 0 THEN 12 ELSE 10

\* p is min(40, round(base * multiplier)), halves rounding up.
IsClaimedPenalty(p, w) ==
    LET tenths == ClaimedBase(w.precipitationIntensity)
                    * ClaimedMultiplier(w.precipitationType, w.temperature)
    IN  \E r \in 0..60 :
            /\ 10 * r - tenths \in -4..5
            /\ p = IF r > 40 THEN 40 ELSE r

ScenarioObservation ==
    [temperature |-> -6, precipitationType |-> 1, precipitationIntensity |-> 50,
     windSpeed |-> 12, visibility |-> 20, weatherSymbol |-> 1]

\* C5: the precipitation penalty is 0 whenever intensity <= 0, whatever the
\* type, and otherwise min(40, round(base * multiplier)) with base 3, 7, 12,
\* 18, 28, 40 by intensity band and the multiplier by type (1.2 below 0
\* degrees, else 1.0, for a type outside 1..6); the observation {-6 degrees,
\* 5 mm/h, Snow, wind 12, visibility 2} gets 34, 10, 10, 15 and score 31.
C5_PrecipitationPenalty ==
    /\ callState # "ready" =>
         IF weather.precipitationIntensity <= 0
         THEN scored[1].breakdown.precipitation = 0
         ELSE IsClaimedPenalty(scored[1].breakdown.precipitation, weather)
    /\ callState = "rescored" =>
         IsClaimedPenalty(scored[2].breakdown.precipitation, weatherHigher)
    /\ callState # "ready" /\ weather = ScenarioObservation =>
         /\ scored[1].breakdown =
              [precipitation |-> 34, visibility |-> 10, wind |-> 10, surfaceRisk |-> 15,
               total |-> 69]
         /\ scored[1].score = 31

\* The scenario observation has been scored.
C5_Witness ==
    /\ callState = "scored"
    /\ weather = ScenarioObservation
    /\ scored[1].score = 31

(***************************************************************************)
(* Claims about assessTrip and getConditionSeverity.                       *)
(***************************************************************************)
Assessment == summary.assessment[1]

ScoredIndices == {i \in 0..(Len(waypoints) - 1) : hasWeather(weatherData, i)}

ClaimedSeverity(w) ==
    CASE \/ w.precipitationIntensity > 40 \/ w.visibility < 30 \/ w.windSpeed > 20
         \/ w.weatherSymbol \in 20..27 -> "severe"
      [] /\ ~(\/ w.precipitationIntensity > 40 \/ w.visibility < 30 \/ w.windSpeed > 20
              \/ w.weatherSymbol \in 20..27)
         /\ \/ w.precipitationIntensity > 20 \/ w.visibility < 50 \/ w.windSpeed > 15
            \/ w.weatherSymbol \in 10..19 -> "caution"
      [] OTHER -> "none"

\* C6: an observation is severe if precipitation > 4 or visibility < 3 or
\* wind > 20 or symbol in 20..27, otherwise caution if precipitation > 2 or
\* visibility < 5 or wind > 15 or symbol in 10..19, otherwise none; and the
\* points assessTrip counts in warningCount and cautionCount are those
\* getConditionSeverity calls severe and caution.
C6_SeverityClassification ==
    callState = "assessed" =>
        /\ DOMAIN summary.severities = ScoredIndices
        /\ \A i \in ScoredIndices :
               summary.severities[i] = ClaimedSeverity(getWeatherAt(weatherData, i))
        /\ Assessment.warningCount =
              Cardinality({i \in ScoredIndices : summary.severities[i] = "severe"})
        /\ Assessment.cautionCount =
              Cardinality({i \in ScoredIndices : summary.severities[i] = "caution"})

\* A single point that only its wind (above 20 m/s) makes severe was counted.
C6_Witness ==
    /\ callState = "assessed"
    /\ Len(waypoints) = 1
    /\ hasWeather(weatherData, 0)
    /\ getWeatherAt(weatherData, 0) = Obs(10, 3, 20, 21, 50, 1)
    /\ Assessment.warningCount = 1

\* C7: severity is warning iff warningCount > 0 and warningCount >= 0.3 *
\* totalPoints; caution iff not warning and (warningCount > 0 or (cautionCount
\* > 0 and cautionCount >= 0.4 * totalPoints)); good otherwise.
C7_TripSeverity ==
    callState = "assessed" =>
        LET a == Assessment
            warning == a.warningCount > 0 /\ 10 * a.warningCount >= 3 * a.totalPoints
            caution ==
                /\ ~warning
                /\ \/ a.warningCount > 0
                   \/ (a.cautionCount > 0 /\ 10 * a.cautionCount >= 4 * a.totalPoints)
        IN  /\ a.severity = "warning" <=> warning
            /\ a.severity = "caution" <=> caution
            /\ a.severity = "good" <=> (~warning /\ ~caution)
            /\ a.totalPoints = Cardinality(ScoredIndices)

\* One warning point among four scored points: below the 30 % share.
C7_Witness ==
    /\ callState = "assessed"
    /\ Assessment.warningCount = 1
    /\ Assessment.totalPoints = 4
    /\ Assessment.severity = "caution"

AllNullOrAbsent == \A k \in DOMAIN weatherData : weatherData[k] = Null

\* C8: when every entry of the map is null or absent assessTrip returns
\* severity good with totalPoints, warningCount and cautionCount 0, for any
\* waypoint list, the empty one included.
C8_AllNullAssessment ==
    callState = "assessed" /\ AllNullOrAbsent =>
        /\ Assessment.severity = "good"
        /\ Assessment.totalPoints = 0
        /\ Assessment.warningCount = 0
        /\ Assessment.cautionCount = 0

\* A list of three waypoints was assessed against one null and two absent entries.
C8_Witness ==
    /\ callState = "assessed"
    /\ Len(waypoints) = 3
    /\ AllNullOrAbsent
    /\ Cardinality(DOMAIN weatherData \cap 0..2) = 1
    /\ Assessment.totalPoints = 0

\* The entries of the map whose key is a waypoint index.
AtWaypoints(m) == [k \in DOMAIN m \cap 0..(Len(waypoints) - 1) |-> m[k]]

\* C23: on every snapshot of the map, partial ones included, assessTrip
\* returns; totalPoints is the number of waypoint indices whose entry is a
\* non-null observation, warningCount + cautionCount <= totalPoints <= the
\* number of waypoints, entries whose key is no waypoint index change
\* nothing, and the waypoint list and the map are left as they were.
C23_PartialSnapshots ==
    /\ [](callState = "ready" =>
             DOMAIN assessTrip(waypoints, weatherData) =
                 {"severity", "isLongTrip", "hasMixedConditions", "warningCount",
                  "cautionCount", "totalPoints"})
    /\ [](callState = "assessed" =>
             /\ Assessment.totalPoints = Cardinality(ScoredIndices)
             /\ Assessment.warningCount + Assessment.cautionCount <= Assessment.totalPoints
             /\ Assessment.totalPoints <= Len(waypoints)
             /\ Assessment = assessTrip(waypoints, AtWaypoints(weatherData)))
    /\ [][callState' = "assessed" => UNCHANGED <<waypoints, weatherData>>]_vars

\* Three waypoints were assessed when only the first had its observation,
\* the second had failed, the third was not set yet, and the map held an
\* observation under a key that is no waypoint index.
C23_Witness ==
    /\ callState = "assessed"
    /\ Len(waypoints) = 3
    /\ DOMAIN weatherData = {0, 1, 4}
    /\ weatherData[0] = Some(HeavySnow) /\ weatherData[1] = Null
    /\ weatherData[4] = Some(ModerateRain)
    /\ Assessment.totalPoints = 1 /\ Assessment.warningCount = 1

(***************************************************************************)
(* Claims about the departure comparison.                                  *)
(***************************************************************************)
Direction(message) ==
    CASE message \in {"improve", "improveWithScore"} -> "Improves"
      [] message \in {"worsen", "worsenWithScore"} -> "Worsens"
      [] message = "notImprove" -> "NoChange"
      [] OTHER -> "None"

ScoredCount(m) == Cardinality(scoredKeys(m))
ScoreSum(m) == sumScores(m, scoredKeys(m))

\* Both maps hold an observation and the comparison was made with the
\* candidate's assessment.
BothScored ==
    /\ callState \in {"rendered", "compared"}
    /\ ScoredCount(weatherData) > 0
    /\ ScoredCount(weatherDataOffset) > 0
    /\ summary.offsetAssessment # Null

\* candidateMean - baselineMean, times both counts (which are positive).
MeanDiffScaled ==
    ScoreSum(weatherDataOffset) * ScoredCount(weatherData)
        - ScoreSum(weatherData) * ScoredCount(weatherDataOffset)

CountsProduct == ScoredCount(weatherData) * ScoredCount(weatherDataOffset)

\* C9 as stated: with an observation in both maps the comparison yields
\* Improves iff candidateAvg - baselineAvg >= 5, Worsens iff it is <= -5 and
\* NoChange otherwise, each average being the mean of calculateDrivingScore
\* over the map's non-null observations.
C9_AsStated ==
    BothScored =>
        /\ Direction(summary.waitMessage) = "Improves"
             <=> MeanDiffScaled >= 5 * CountsProduct
        /\ Direction(summary.waitMessage) = "Worsens"
             <=> MeanDiffScaled <= -5 * CountsProduct
        /\ Direction(summary.waitMessage) = "NoChange"
             <=> (MeanDiffScaled > -5 * CountsProduct /\ MeanDiffScaled < 5 * CountsProduct)

\* r is the mean sum / count rounded to the nearest integer, halves up.
IsRoundedMean(r, sum, count) ==
    /\ 2 * sum - count < 2 * count * r
    /\ 2 * count * r <= 2 * sum + count

\* C9, amended: the same three-way rule, each average being the mean of
\* calculateDrivingScore over the map's non-null observations rounded to the
\* nearest integer (halves up) before the two are subtracted.
C9_ScoreComparison ==
    BothScored =>
        LET baselineSum == ScoreSum(weatherData)
            baselineCount == ScoredCount(weatherData)
            candidateSum == ScoreSum(weatherDataOffset)
            candidateCount == ScoredCount(weatherDataOffset)
            direction == Direction(summary.waitMessage)
        IN  \E b \in 0..100 :
                /\ IsRoundedMean(b, baselineSum, baselineCount)
                /\ \E c \in 0..100 :
                      /\ IsRoundedMean(c, candidateSum, candidateCount)
                      /\ direction = "Improves" <=> c - b >= 5
                      /\ direction = "Worsens" <=> c - b <= -5
                      /\ direction = "NoChange" <=> (c - b > -5 /\ c - b < 5)

\* Baseline mean 90, candidate mean 94.5: rendered as an improvement, 90 -> 95.
C9_Witness ==
    /\ callState = "rendered"
    /\ ScoredCount(weatherData) = 1 /\ ScoreSum(weatherData) = 90
    /\ ScoredCount(weatherDataOffset) = 2 /\ ScoreSum(weatherDataOffset) = 189
    /\ summary.waitMessage = "improveWithScore"
    /\ summary.showsWaitMessage

AverageUndefined ==
    ScoredCount(weatherData) = 0 \/ ScoredCount(weatherDataOffset) = 0

SeverityOrder(severity) ==
    CASE severity = "good" -> 0 [] severity = "caution" -> 1 [] severity = "warning" -> 2

\* The outcome of comparing the two trips' severities ordinally.
SeverityOutcome ==
    LET current == SeverityOrder(assessTrip(waypoints, weatherData).severity)
        candidate == SeverityOrder(assessTrip(waypoints, weatherDataOffset).severity)
    IN  IF candidate < current THEN "Improves"
        ELSE IF candidate > current THEN "Worsens"
        ELSE "NoChange"

\* The trip has waypoints and every fetch of both maps has completed, as when
\* handleSubmit has stored them.
FullyLoaded ==
    /\ Len(waypoints) > 0
    /\ DOMAIN weatherData = 0..(Len(waypoints) - 1)
    /\ DOMAIN weatherDataOffset = 0..(Len(waypoints) - 1)

\* C10 as stated: when the baseline or the candidate average is undefined the
\* comparison still produces a three-way outcome, that of comparing the two
\* trip severities ordinally.  Stated for a rendered summary: the baseline is
\* scored and every +1h fetch has completed.
C10_AsStated ==
    callState = "rendered" /\ AverageUndefined /\ FullyLoaded /\ summary.view = "summary" =>
        Direction(summary.waitMessage) = SeverityOutcome

\* C10, amended: getWaitMessage compares the two trip severities ordinally
\* when an average is undefined and it was handed a candidate assessment; the
\* summary hands it none when the candidate map has no scored point, and
\* computes no comparison when the baseline map has none, so a render of the
\* summary with an undefined average produces no outcome.
C10_SeverityFallback ==
    /\ callState = "compared" /\ AverageUndefined /\ summary.offsetAssessment # Null =>
         /\ summary.waitMessage \in {"improve", "worsen", "notImprove"}
         /\ Direction(summary.waitMessage) = SeverityOutcome
    /\ callState = "rendered" /\ AverageUndefined =>
         /\ summary.waitMessage = "null"
         /\ ~summary.showsWaitMessage
         /\ ScoredCount(weatherData) = 0 <=> summary.view # "summary"
         /\ summary.view = "summary" => summary.offsetAssessment = Null

\* getWaitMessage, handed the assessment of an all-null candidate map beside a
\* baseline under warning, answered by the severities.
C10_Witness ==
    /\ callState = "compared"
    /\ ScoredCount(weatherDataOffset) = 0
    /\ DOMAIN weatherDataOffset # {}
    /\ summary.offsetAssessment # Null
    /\ summary.assessment[1].severity = "warning"
    /\ summary.waitMessage = "improve"

(***************************************************************************)
(* Claims about getWeather and the normalisation of provider payloads.     *)
(***************************************************************************)
\* The Sweden bounding box: 55.0..69.5 N, 10.5..24.5 E.
InsideSwedenBox ==
    coords.lat \in 550..695 /\ coords.lon \in 105..245

Requested(provider) == \E i \in 1..Len(attempts) : attempts[i] = provider

GetWeatherEnded == callState \in {"returned", "threw"}

SMHIAttemptFails == ~smhiResponse.ok \/ smhiResponse.series = << >>

\* C15: getWeather requests SMHI, and requests it first, exactly for
\* coordinates inside the Sweden bounding box; when the SMHI attempt fails
\* Open-Meteo is requested next; getWeather throws only when the Open-Meteo
\* request failed.
C15_ProviderOrder ==
    /\ Requested("SMHI") => InsideSwedenBox /\ attempts[1] = "SMHI"
    /\ (InsideSwedenBox /\ callState # "ready") => attempts[1] = "SMHI"
    /\ ~InsideSwedenBox => attempts \in {<< >>, << "OpenMeteo" >>}
    /\ callState = "fallback" =>
          /\ attempts = << "SMHI" >>
          /\ SMHIAttemptFails
          /\ ENABLED RequestOpenMeteo
    /\ (GetWeatherEnded /\ InsideSwedenBox /\ SMHIAttemptFails) =>
          attempts = << "SMHI", "OpenMeteo" >>
    /\ (GetWeatherEnded /\ InsideSwedenBox /\ ~SMHIAttemptFails) =>
          attempts = << "SMHI" >> /\ callState = "returned"
    /\ callState = "threw" => Last(attempts) = "OpenMeteo" /\ ~openMeteoResponse.ok
    /\ (GetWeatherEnded /\ openMeteoResponse.ok) => callState = "returned"

\* Inside the box SMHI failed and the observation came from Open-Meteo.
C15_Witness ==
    /\ callState = "returned"
    /\ InsideSwedenBox
    /\ attempts = << "SMHI", "OpenMeteo" >>
    /\ observation # Null

\* The observation getWeather returned was normalised from this provider.
NormalizedFrom(provider) ==
    callState = "returned" /\ Last(attempts) = provider

\* The WMO code of the Open-Meteo entry, or Null.
OpenMeteoCode ==
    IF openMeteoResponse.series = << >> THEN Null
    ELSE openMeteoResponse.series[1].weather_code

\* The coding the scorer's multiplier table reads: 0 None, 1 Snow, 2 Sleet,
\* 3 Rain, 4 Drizzle, 5 FreezingRain, 6 FreezingDrizzle.
ClaimedPrecipType(code) ==
    IF code \in (61..65) \cup (80..82) THEN 3
    ELSE IF code \in 51..55 THEN 4
    ELSE IF code \in (71..77) \cup (85..86) THEN 1
    ELSE IF code \in 66..67 THEN 5
    ELSE IF code \in 56..57 THEN 6
    ELSE 0

\* C17: the precipitationType normalised from an Open-Meteo payload is the
\* scorer's code for the payload's WMO weather code: 3 for rain (61-65,
\* 80-82), 4 for drizzle (51-55), 1 for snow (71-77, 85-86), 5 for freezing
\* rain (66-67), 6 for freezing drizzle (56-57) and 0 for every other code.
C17_AsStated ==
    (NormalizedFrom("OpenMeteo") /\ OpenMeteoCode # Null) =>
        observation[1].precipitationType = ClaimedPrecipType(OpenMeteoCode[1])

\* The SMHI Wsymb2 code of the entry, or Null.
SMHICode ==
    IF smhiResponse.series = << >> THEN Null
    ELSE smhiResponse.series[1].Wsymb2

\* The symbol table of the SMHI mapping, by range.
ClaimedSMHISymbol(code) ==
    CASE code \in 1..2 -> 1
      [] code \in 3..4 -> 2
      [] code \in 5..6 -> 3
      [] code = 7 -> 4
      [] code \in 8..10 -> 5
      [] code \in 11..14 -> 6
      [] code \in 15..17 -> 8
      [] code \in 18..20 -> 6
      [] code \in 21..27 -> 9
      [] OTHER -> 1

\* The symbol table of the Open-Meteo mapping, by range.
ClaimedOpenMeteoSymbol(code) ==
    CASE code = 0 -> 1
      [] code \in 1..2 -> 2
      [] code = 3 -> 3
      [] code \in 45..48 -> 4
      [] code \in 51..55 -> 5
      [] code \in 61..65 -> 6
      [] code \in 71..77 -> 8
      [] code \in 80..82 -> 7
      [] code \in 95..99 -> 9
      [] OTHER -> 1

\* C18: every observation getWeather returns has weatherSymbol in 1..27; a
\* provider code in a mapped range gives the table value of its range, and a
\* code outside every range, a zero code or a missing code gives 1.
C18_SymbolMappingTotal ==
    /\ callState = "returned" => observation[1].weatherSymbol \in 1..27
    /\ NormalizedFrom("SMHI") =>
          observation[1].weatherSymbol =
              (IF SMHICode = Null THEN 1 ELSE ClaimedSMHISymbol(SMHICode[1]))
    /\ NormalizedFrom("OpenMeteo") =>
          observation[1].weatherSymbol =
              (IF OpenMeteoCode = Null THEN 1 ELSE ClaimedOpenMeteoSymbol(OpenMeteoCode[1]))

\* An SMHI code above the table (28 or more) was normalised.
C18_Witness ==
    /\ NormalizedFrom("SMHI")
    /\ SMHICode # Null
    /\ SMHICode[1] > 27
    /\ observation[1].weatherSymbol = 1

\* The payload the observation was normalised from has an entry, and the
\* entry has every field.
PayloadComplete ==
    /\ NormalizedFrom("SMHI") =>
          /\ smhiResponse.series # << >>
          /\ \A name \in {"t", "ws", "vis", "pcat", "pmean", "Wsymb2"} :
                smhiResponse.series[1][name] # Null
    /\ NormalizedFrom("OpenMeteo") =>
          /\ openMeteoResponse.series # << >>
          /\ \A column \in {"temperature_2m", "precipitation", "wind_speed_10m",
                            "visibility", "weather_code"} :
                openMeteoResponse.series[1][column] # Null

FieldOr(series, name, default) ==
    IF series = << >> THEN default
    ELSE IF series[1][name] = Null THEN default
    ELSE series[1][name][1]

DocumentedLabel(s) ==
    IF s >= 80 THEN "Excellent"
    ELSE IF s >= 60 THEN "Good"
    ELSE IF s >= 40 THEN "Fair"
    ELSE "Poor"

\* C20: getDrivingScoreLabel gives every score 0..100 the label the How It
\* Works page documents: Excellent for 80..100, Good for 60..79, Fair for
\* 40..59 and Poor below 40.
C20_AsStated ==
    scoreLabel # Null => scoreLabel[1] = DocumentedLabel(score)

(***************************************************************************)
(* Claims about the trip submission of Index and the +3h check.            *)
(***************************************************************************)
\* The baseline map of the running submission is set and averages above 90.
BaselineExcellent ==
    /\ pc \in {"preparing", "done"}
    /\ calculateTripAverageScore(weatherData) # Null
    /\ calculateTripAverageScore(weatherData)[1] > 90

\* C11: once a submission's baseline average exceeds 90, it has issued no
\* +1h and no +3h fetch, the +1h and +3h maps are empty, and the summary
\* shows no wait message.
C11_AsStated ==
    BaselineExcellent =>
        /\ issued.offset = 0
        /\ issued.offset3h = 0
        /\ weatherDataOffset = EmptyMap
        /\ weatherDataOffset3h = EmptyMap
        /\ ~summary.showsWaitMessage

\* The +1h map holds an observation for every waypoint.
OffsetFullyLoaded ==
    /\ Len(waypoints) > 0
    /\ \A i \in 0..(Len(waypoints) - 1) : hasWeather(weatherDataOffset, i)

\* The outcome of the +1h comparison in the current state.
OffsetDirection ==
    Direction(getWaitMessage(assessTrip(waypoints, weatherData),
                             offsetAssessmentOf(waypoints, weatherDataOffset),
                             weatherData, weatherDataOffset))

\* C12: within one trip onRequest3hCheck is invoked at most once, and each
\* invocation happens in a state where the +1h map holds an observation for
\* every waypoint and the +1h comparison is NoChange or Worsens.
C12_Single3hCheck ==
    /\ [](issued.checks3h <= 1)
    /\ [][issued'.checks3h > issued.checks3h =>
            /\ issued.checks3h = 0
            /\ OffsetFullyLoaded
            /\ OffsetDirection \in {"NoChange", "Worsens"}
            /\ has3hCheckTriggered']_vars

\* The check was requested once, a +3h result has since updated the map and
\* the summary is still shown.
C12_Witness ==
    /\ issued.checks3h = 1
    /\ mounted(isLoading, routeData)
    /\ weatherDataOffset3h # EmptyMap
    /\ has3hCheckTriggered

\* handleSubmit has passed its baseline Promise.all.
BaselineSettled == pc \in {"offset", "preparing", "done"}

\* C13: with geocoding and routing done, whichever baseline fetches fail,
\* the submission goes on without an error: the baseline map has one entry
\* per waypoint index, null exactly at the failed indices, and the route and
\* its waypoint list are kept.
C13_WeatherFailuresTolerated ==
    /\ pc = "weather" => error = Null
    /\ BaselineSettled =>
          /\ error = Null
          /\ routeData # Null
          /\ waypoints = calculateWaypoints(routeData[1], departureTime, "from", "to")
          /\ DOMAIN weatherData = 0..(Len(waypoints) - 1)
          /\ \A i \in DOMAIN weatherData : weatherData[i] = Null <=> i \in issued.failed

\* A submission completed although one of its two baseline fetches failed.
C13_Witness ==
    /\ pc = "done"
    /\ ~isLoading
    /\ Len(waypoints) = 2
    /\ Cardinality(issued.failed) = 1

\* C14: a submission that fails in geocoding, in routing or on an empty
\* geometry ends with the error message set, isLoading false and
\* loadingStage idle; it publishes no waypoint list and issues no weather
\* fetch, and only a new submission leaves the failed state.
C14_FatalFailure ==
    /\ [](pc = "failed" =>
            /\ ~isLoading
            /\ loadingStage = "idle"
            /\ waypoints = << >>
            /\ weatherData = EmptyMap
            /\ issued.baseline = 0 /\ issued.offset = 0 /\ issued.offset3h = 0
            /\ \A f \in pending : f.trip < trip)
    /\ [][(pc' = "failed" /\ pc # "failed") => error' # Null]_vars
    /\ [][(pc = "failed" /\ pc' # "failed") =>
            (pc' = "geocode" /\ trip' = trip + 1 /\ isLoading')]_vars

\* The submission failed on an empty route geometry.
C14_Witness ==
    /\ pc = "failed"
    /\ routeData # Null
    /\ error # Null

\* C16: a fetch issued by an earlier submission that settles after a new
\* submission changes none of the weather maps and none of the loading flags.
C16_AsStated ==
    [][\A f \in pending :
          (f \notin pending' /\ f.trip < trip) =>
              UNCHANGED <<weatherData, weatherDataOffset, weatherDataOffset3h,
                          isLoading, isLoading3hOffset, loadingStage>>]_vars

(***************************************************************************)
(* Claims about the trip aggregates.                                       *)
(***************************************************************************)
\* The driving scores of the non-null observations of the baseline map.
TripScoreSet == {calculateDrivingScore(weatherData[k][1]) : k \in scoredKeys(weatherData)}

NoObservation == \A k \in DOMAIN weatherData : weatherData[k] = Null

\* C21: calculateTripAverageScore and getMinTripScore return for every map,
\* null entries included; both return null exactly when the map holds no
\* non-null observation (the empty map included); otherwise the minimum is the
\* least score and the average an integer with min <= average <= max and
\* 0 <= average <= 100.
C21_TripAggregates ==
    /\ callState = "ready" => ENABLED CalculateTripScores
    /\ callState = "aggregated" =>
          LET average == tripScores[1].average
              minScore == tripScores[1].min
          IN  /\ average = Null <=> NoObservation
              /\ minScore = Null <=> NoObservation
              /\ ~NoObservation =>
                    /\ minScore[1] \in TripScoreSet
                    /\ \A x \in TripScoreSet : minScore[1] <= x
                    /\ average[1] \in 0..100
                    /\ minScore[1] <= average[1]
                    /\ \E x \in TripScoreSet : average[1] <= x

\* A map of one null entry and the scores 97 and 92, whose mean 94.5 rounds
\* to 95, has been aggregated.
C21_Witness ==
    /\ callState = "aggregated"
    /\ weatherData = (0 :> Null) @@ (1 :> Some(ColdDry)) @@ (2 :> Some(ColdBreezy))
    /\ tripScores[1] = [average |-> Some(95), min |-> Some(92)]

(***************************************************************************)
(* Claims about the candidate maps and the loading stages of Index.        *)
(***************************************************************************)
WaypointIndices == 0..(Len(waypoints) - 1)

\* The +3h round of the running trip has been requested and all its fetches
\* have settled.
Round3hSettled ==
    /\ issued.checks3h >= 1
    /\ \A f \in pending : ~(f.kind = "offset3h" /\ f.trip = trip)

\* C22: once the +1h fetches of a trip have all settled the +1h map has one
\* entry for every waypoint index and no other; once its +3h fetches have all
\* settled the +3h map has; isLoading3hOffset is false after a +3h request
\* only when all N entries of the +3h map are written; and a settling +3h
\* fetch writes its own index and removes no entry.
C22_AsStated ==
    /\ []((pc \in {"preparing", "done"} /\ issued.offset > 0) =>
             DOMAIN weatherDataOffset = WaypointIndices)
    /\ [](Round3hSettled => DOMAIN weatherDataOffset3h = WaypointIndices)
    /\ []((issued.checks3h >= 1 /\ ~isLoading3hOffset) =>
             DOMAIN weatherDataOffset3h = WaypointIndices)
    /\ [][\A f \in pending :
             (f \notin pending' /\ f.kind = "offset3h" /\ pending' \subseteq pending) =>
                 /\ f.index \in DOMAIN weatherDataOffset3h'
                 /\ DOMAIN weatherDataOffset3h \subseteq DOMAIN weatherDataOffset3h']_vars

(***************************************************************************)
(* Claims about the nearest-time match.                                    *)
(***************************************************************************)
\* The distance of entry j of the series (counted from 1) to the target.
TimeDiff(j) == Abs(seriesTimes[j] - targetTimestamp)

\* C24: for both providers the entry chosen is one whose absolute time
\* difference from the target is minimal over the whole series, and it is
\* the first of the series with that difference.
C24_NearestFirstWins ==
    (callState \in {"closestSMHI", "closestOpenMeteo"} /\ seriesTimes # << >>) =>
        LET chosen == closestIndex[1] + 1
        IN  /\ chosen \in 1..Len(seriesTimes)
            /\ \A j \in 1..Len(seriesTimes) : TimeDiff(chosen) <= TimeDiff(j)
            /\ \A j \in 1..(chosen - 1) : TimeDiff(j) > TimeDiff(chosen)

\* A series in descending order whose second and third entries are equally
\* close to the target: the second was chosen.
C24_Witness ==
    /\ callState = "closestOpenMeteo"
    /\ seriesTimes = << 90000, 86400, 82800 >>
    /\ targetTimestamp = 84600
    /\ closestIndex = Some(1)

(***************************************************************************)
(* Claims about generateNarrative.                                         *)
(***************************************************************************)
TheNarrative == narrative[1]

\* The segments of the narrative's segment sentences, in their order.
RECURSIVE SegmentsFrom(_)
SegmentsFrom(i) ==
    IF i > Len(TheNarrative) THEN << >>
    ELSE IF TheNarrative[i].kind = "segment"
         THEN << TheNarrative[i].detail.segment >> \o SegmentsFrom(i + 1)
         ELSE SegmentsFrom(i + 1)

Segments == SegmentsFrom(1)

ScoredWaypoints == {i \in 0..(Len(waypoints) - 1) : hasWeather(weatherData, i)}

Observation(i) == getWeatherAt(weatherData, i)

\* More than 3 in symbol, more than 1 mm/h in intensity (tenths here) or
\* more than 5 in temperature.
DiffersFrom(a, b) ==
    \/ Abs(a.weatherSymbol - b.weatherSymbol) > 3
    \/ Abs(a.precipitationIntensity - b.precipitationIntensity) > 10
    \/ Abs(a.temperature - b.temperature) > 5

\* The segment whose index range holds waypoint i.
SegmentsHolding(i) ==
    {k \in 1..Len(Segments) : Segments[k].startIndex <= i /\ i <= Segments[k].endIndex}

PreviousScored(i) == {j \in ScoredWaypoints : j < i}

Latest(indices) == CHOOSE j \in indices : \A k \in indices : k <= j

EventLineIndices == {i \in 1..Len(TheNarrative) : TheNarrative[i].kind \in {"sunrise", "sunset"}}

\* The sunrises and sunsets the scored waypoints report inside the trip
\* window, as pairs of type and time.
ReportedEvents ==
    LET tripStart == waypoints[1].arrivalTime
        tripEnd == waypoints[Len(waypoints)].arrivalTime
        InWindow(t) == t # << >> /\ t[1] >= tripStart /\ t[1] <= tripEnd
    IN  { << "sunrise", Observation(i).sunrise[1] >> :
            i \in {j \in ScoredWaypoints : InWindow(Observation(j).sunrise)} }
          \cup { << "sunset", Observation(i).sunset[1] >> :
                   i \in {j \in ScoredWaypoints : InWindow(Observation(j).sunset)} }

\* Every reported event has a line of its type and date.
C27_NeverOmitted ==
    \A e \in ReportedEvents :
        \E i \in EventLineIndices :
            /\ TheNarrative[i].kind = e[1]
            /\ dateOf(TheNarrative[i].detail.time) = dateOf(e[2])

\* No two lines have the same type and date.
C27_NeverRepeated ==
    \A i, j \in EventLineIndices :
        (/\ i # j
         /\ TheNarrative[i].kind = TheNarrative[j].kind
         /\ dateOf(TheNarrative[i].detail.time) = dateOf(TheNarrative[j].detail.time)) => FALSE

\* Every line is for an event some scored waypoint reports inside the window.
C27_OnlyReported ==
    \A i \in EventLineIndices :
        << TheNarrative[i].kind, TheNarrative[i].detail.time >> \in ReportedEvents

C27_Chronological ==
    \A i, j \in EventLineIndices :
        i < j => TheNarrative[i].detail.time <= TheNarrative[j].detail.time

\* The segment sentence an event line follows is the latest one above it.
SentenceAbove(i) ==
    CHOOSE k \in 1..(i - 1) :
        /\ TheNarrative[k].kind = "segment"
        /\ \A x \in (k + 1)..(i - 1) : TheNarrative[x].kind \in {"sunrise", "sunset"}

\* The event of a line lies between the start of the segment whose sentence
\* it follows and the start of the next segment.
C27_AfterItsSegment ==
    \A i \in EventLineIndices :
        /\ \E k \in 1..(i - 1) : TheNarrative[k].kind = "segment"
        /\ LET segment == TheNarrative[SentenceAbove(i)].detail.segment
               later == {k \in 1..Len(Segments) :
                           Segments[k].startIndex > segment.startIndex}
           IN  /\ TheNarrative[i].detail.minutesFromStart >= segment.startMinutes
               /\ \A k \in later :
                      TheNarrative[i].detail.minutesFromStart < Segments[k].startMinutes

Narrated == callState = "narrated" /\ Len(waypoints) >= 2

\* C27, as the claim states it: every sunrise or sunset a scored waypoint
\* reports inside the trip window has its line in the narrative, no type and
\* date has two lines, the lines are in chronological order and each one
\* follows the sentence of the segment whose time range holds the event.
C27_AsStated ==
    Narrated =>
        /\ C27_NeverOmitted
        /\ C27_NeverRepeated
        /\ C27_Chronological
        /\ C27_AfterItsSegment

(***************************************************************************)
(* Claims about missing sunrise and sunset.                                *)
(***************************************************************************)
\* Waypoint i has no observation, or one without a sunrise or a sunset.
SunUnknown(i) ==
    \/ i \notin ScoredWaypoints
    \/ Observation(i).sunrise = Null
    \/ Observation(i).sunset = Null

LinesOfKind(kind) == {i \in 1..Len(TheNarrative) : TheNarrative[i].kind = kind}

\* data.daily has an entry for the UTC day of the target time.
HasDayEntry ==
    /\ daily # Null
    /\ \E i \in 1..Len(daily[1]) : daily[1][i].time = dateOf(targetTimestamp)

\* C28: when the first waypoint has no observation, or one without sunrise
\* or sunset, the narrative has no darkness line; when the last one has,
\* the narrative has no destination line that says it will be dark; a
\* marker of such a waypoint is not drawn as night; and a payload without a
\* daily entry for the target date gives a null sunrise and a null sunset.
C28_UnknownIsDaytime ==
    /\ Narrated =>
           /\ SunUnknown(0) => LinesOfKind("darkness") = {}
           /\ SunUnknown(Len(waypoints) - 1) =>
                  \A i \in LinesOfKind("destination") : TheNarrative[i].detail = FALSE
    /\ callState = "marked" =>
           \A i \in 1..Len(waypoints) : SunUnknown(i - 1) => isNight[i] = FALSE
    /\ (callState = "sunTimesRead" /\ ~HasDayEntry) =>
           sunTimes = Some([sunrise |-> Null, sunset |-> Null])

\* A trip that starts and ends after the only sunset its observations know
\* of, with no sunrise: no darkness line, and a destination line that does
\* not say it will be dark.
C28_Witness ==
    /\ Narrated
    /\ Len(waypoints) = 2
    /\ ScoredWaypoints = {0, 1}
    /\ Observation(0).sunrise = Null /\ Observation(0).sunset = Some(70000)
    /\ Observation(1).sunrise = Null /\ Observation(1).sunset = Some(70000)
    /\ LinesOfKind("darkness") = {}
    /\ \E i \in LinesOfKind("destination") : TheNarrative[i].detail = FALSE

(***************************************************************************)
(* Claims about the +3h request over a whole session.                      *)
(***************************************************************************)
\* The baseline average exists and is at most 90.
BaselineAtMost90 ==
    /\ calculateTripAverageScore(weatherData) # Null
    /\ calculateTripAverageScore(weatherData)[1] <= 90

\* handleSubmit has passed the Promise.all of its +1h fetches: the +1h map
\* has an entry, an observation or null, for every waypoint.
OffsetSettled ==
    /\ pc \in {"preparing", "done"}
    /\ Len(waypoints) > 0
    /\ DOMAIN weatherDataOffset = 0..(Len(waypoints) - 1)

\* C29, as the claim states it: in every trip of the session, from a state
\* where the baseline average is at most 90, every +1h fetch has settled
\* and the +1h comparison is NoChange or Worsens, the +3h fetch is
\* eventually requested (or the user has submitted the next trip).
C29_AsStated ==
    \A t \in 1..MaxTrips :
        (/\ trip = t
         /\ BaselineAtMost90
         /\ OffsetSettled
         /\ OffsetDirection \in {"NoChange", "Worsens"})
            ~> (trip # t \/ issued.checks3h > 0)

\* The part of C29 the code keeps: the same, for a +1h map without a
\* failure and a comparison of NoChange.
C29_NoChangeFullyLoaded ==
    \A t \in 1..MaxTrips :
        (/\ trip = t
         /\ BaselineAtMost90
         /\ OffsetSettled
         /\ OffsetFullyLoaded
         /\ OffsetDirection = "NoChange")
            ~> (trip # t \/ issued.checks3h > 0)

\* Every request of the +3h check is made on the message without a score.
C29_RequestedOnNoChangeOnly ==
    [][issued'.checks3h > issued.checks3h => OffsetDirection = "NoChange"]_vars

(***************************************************************************)
(* Claims about the loading stage and the progress counter.                *)
(***************************************************************************)
StageMoves ==
    { << "idle", "route" >>, << "route", "weather" >>,
      << "weather", "preparing" >>, << "preparing", "idle" >> }

\* A baseline fetch leaves the set of fetches in flight in this step.
BaselineFetchCompletes ==
    \E f \in pending : f.kind = "baseline" /\ f \notin pending'

\* C30: isLoading is true exactly while the stage is not idle; the stage
\* changes only along idle, route, weather, preparing, idle, or to idle
\* together with an error; weatherProgress.current never exceeds
\* weatherProgress.total; every baseline fetch that completes, with an
\* observation or with a failure, adds exactly one to it, and nothing else
\* changes it but a reset to 0; and it equals the total in the state where
\* the stage has left weather.
C30_LoadingProgress ==
    /\ [](isLoading <=> loadingStage # "idle")
    /\ [](weatherProgress.current <= weatherProgress.total)
    /\ [][loadingStage' # loadingStage =>
            \/ << loadingStage, loadingStage' >> \in StageMoves
            \/ loadingStage' = "idle" /\ error' # Null]_vars
    /\ [][BaselineFetchCompletes =>
            weatherProgress'.current = weatherProgress.current + 1]_vars
    /\ [][weatherProgress'.current # weatherProgress.current =>
            \/ BaselineFetchCompletes
            \/ weatherProgress'.current = 0]_vars
    /\ [][(loadingStage = "weather" /\ loadingStage' # "weather") =>
            weatherProgress'.current = weatherProgress'.total]_vars

\* The stage has left weather for a trip of two waypoints of which one
\* baseline fetch failed: both were counted.
C30_Witness ==
    /\ loadingStage = "preparing"
    /\ isLoading
    /\ Cardinality(issued.failed) = 1
    /\ weatherProgress = [current |-> 2, total |-> 2]

====
